---- MODULE Spec2Model ----
(***************************************************************************)
(* A model of saphyr-serde: the decoder (deserialize.rs, seq.rs,           *)
(* mapping.rs, variant.rs) that pulls saphyr_parser events and drives      *)
(* serde visitors, and the encoder (ser/serializer.rs) that writes block   *)
(* YAML with an indent counter.                                            *)
(*                                                                         *)
(* The event stream is a sequence of events; the parser's cursor is the    *)
(* number of events already taken.  A span is modelled by the index of the *)
(* event it belongs to.  Every decoder method takes the decoder state      *)
(* de = [pos, log] and returns [st, v, de, e]: st is "ok", "err" or        *)
(* "panic" (an unwrap on None, a todo!()), v the visitor's value, e the    *)
(* DeserializeError.  de.log records every call of a decoder or accessor   *)
(* method with the cursor before and after it.                             *)
(***************************************************************************)
EXTENDS Integers, Sequences, FiniteSets, TLC

VARIABLES
    mode,      \* "from_str" or "round_trip": which entry point the run exercises
    pc,        \* the statement of from_str / to_string the run is at
    stream,    \* the events saphyr_parser yields for the input text
    target,    \* the type T of from_str::<T>
    de,        \* YamlDeserializer: [pos |-> events taken, log |-> calls made]
    result,    \* what from_str returned (or the failure that ended it)
    value,     \* the value handed to to_string
    output,    \* Serializer.output, the chunks appended so far
    indent,    \* Serializer.indent
    work       \* the serializer's pending calls (its call stack, innermost first)

vars == <<mode, pc, stream, target, de, result, value, output, indent, work>>

(***************************************************************************)
(* Events (saphyr_parser::Event) and the documents they come from.         *)
(***************************************************************************)
Ev(k) == [k |-> k, text |-> ""]
Scalar(t) == [k |-> "Scalar", text |-> t]
StreamStart == Ev("StreamStart")
StreamEnd == Ev("StreamEnd")
DocumentStart == Ev("DocumentStart")
DocumentEnd == Ev("DocumentEnd")
SequenceStart == Ev("SequenceStart")
SequenceEnd == Ev("SequenceEnd")
MappingStart == Ev("MappingStart")
MappingEnd == Ev("MappingEnd")

\* Document nodes: a scalar with its text, an empty node, a block sequence,
\* a block mapping (entries are <<key node, value node>>).
DScalar(t) == [k |-> "scalar", text |-> t]
DEmpty == [k |-> "empty"]
DSeq(items) == [k |-> "seq", items |-> items]
DMap(entries) == [k |-> "map", entries |-> entries]

RECURSIVE NodeEvents(_)
RECURSIVE NodesEvents(_)
RECURSIVE EntriesEvents(_)
\* The events the parser yields for one node.  An empty node (nothing after
\* a colon or a dash, an empty document) is reported as the plain scalar "~".
NodeEvents(n) ==
    CASE n.k = "scalar" -> <<Scalar(n.text)>>
      [] n.k = "empty" -> <<Scalar("~")>>
      [] n.k = "seq" -> <<SequenceStart>> \o NodesEvents(n.items) \o <<SequenceEnd>>
      [] n.k = "map" -> <<MappingStart>> \o EntriesEvents(n.entries) \o <<MappingEnd>>

NodesEvents(ns) ==
    IF ns = <<>> THEN <<>> ELSE NodeEvents(Head(ns)) \o NodesEvents(Tail(ns))

EntriesEvents(es) ==
    IF es = <<>> THEN <<>>
    ELSE NodeEvents(Head(es)[1]) \o NodeEvents(Head(es)[2]) \o EntriesEvents(Tail(es))

RECURSIVE DocumentsEvents(_)
DocumentsEvents(docs) ==
    IF docs = <<>> THEN <<>>
    ELSE <<DocumentStart>> \o NodeEvents(Head(docs)) \o <<DocumentEnd>>
         \o DocumentsEvents(Tail(docs))

\* Parser::new_from_str(input) on a text holding the documents `docs`.
StreamOf(docs) == <<StreamStart>> \o DocumentsEvents(docs) \o <<StreamEnd>>

(***************************************************************************)
(* Results and errors (error.rs).                                          *)
(***************************************************************************)
NoValue == [k |-> "no_value"]
NoError == [kind |-> "none"]

Ok(v, d) == [st |-> "ok", v |-> v, de |-> d, e |-> NoError]
Err(e, d) == [st |-> "err", v |-> NoValue, de |-> d, e |-> e]
Panic(why, d) == [st |-> "panic", v |-> NoValue, de |-> d, e |-> [kind |-> "panic", why |-> why]]

TypeError == [kind |-> "TypeError"]
EarlyTermination == [kind |-> "EarlyTermination"]
ScanError == [kind |-> "ScanError"]
unexpected(event, span, location) ==
    [kind |-> "UnexpectedElement", event |-> event, span |-> span, location |-> location]
not_a_bool(text, span) == [kind |-> "BoolParseError", text |-> text, span |-> span]
number_parse_failure(text, span, type_string) ==
    [kind |-> "NumberParseError", text |-> text, span |-> span, type_string |-> type_string]
\* serde::de::Error::custom(msg): msg is kept as what it says and about what.
custom(what, name) == [kind |-> "SerdeError", what |-> what, name |-> name]

\* One record of de.log: the method, the cursor before and after, the outcome.
Logged(op, d0, r) ==
    [r EXCEPT !.de.log = Append(@, [op |-> op, from |-> d0.pos, to |-> r.de.pos,
                                     st |-> r.st, v |-> r.v, e |-> r.e])]

Advance(d) == [d EXCEPT !.pos = @ + 1]

(***************************************************************************)
(* Target types (what serde's derived Deserialize asks the decoder for)    *)
(* and decoded values.                                                     *)
(***************************************************************************)
TBool == [k |-> "bool"]
TString == [k |-> "string"]
TChar == [k |-> "char"]
TUnit == [k |-> "unit"]
TUnitStruct == [k |-> "unit_struct"]
TInt(w) == [k |-> "int", w |-> w]
TOption(t) == [k |-> "option", of |-> t]
TVec(t) == [k |-> "vec", of |-> t]
TTuple(ts) == [k |-> "tuple", ts |-> ts]
TNewtypeStruct(t) == [k |-> "newtype_struct", of |-> t]
TTupleStruct(ts) == [k |-> "tuple_struct", ts |-> ts]
Field(name, t) == [name |-> name, ty |-> t]
TStruct(fs) == [k |-> "struct", fields |-> fs]
\* A variant: kind is "unit", "newtype", "tuple" or "struct"; ty is the
\* payload's type (the inner type, a TTuple, a TStruct; TUnit for "unit").
Variant(name, kind, t) == [name |-> name, kind |-> kind, ty |-> t]
TEnum(vs) == [k |-> "enum", variants |-> vs]
\* An internally tagged enum, #[serde(tag = "...")]: every variant a struct.
TTagged(tag, vs) == [k |-> "tagged", tag |-> tag, variants |-> vs]
TAny == [k |-> "any"]            \* serde_json::Value
TBytes == [k |-> "bytes"]        \* a type that asks for deserialize_bytes (serde_bytes)
TMap == [k |-> "map"]            \* HashMap<String, String>
TIgnored == [k |-> "ignored"]    \* serde::de::IgnoredAny
TMapKey == [k |-> "map_key"]     \* the key of a serde_json map, read with deserialize_str

VBool(b) == [k |-> "bool", b |-> b]
VStr(s) == [k |-> "str", s |-> s]
VChar(s) == [k |-> "char", s |-> s]
VInt(n) == [k |-> "int", n |-> n]
VUnit == [k |-> "unit"]
VNone == [k |-> "none"]
VSome(v) == [k |-> "some", v |-> v]
VSeq(xs) == [k |-> "seq", xs |-> xs]
VStruct(fs) == [k |-> "struct", fs |-> fs]                 \* fs: <<name, value>> in declaration order
VVariant(name, payload) == [k |-> "variant", name |-> name, payload |-> payload]
VMap(es) == [k |-> "map", es |-> es]                       \* es: <<key, value>> in document order
VIgnored == [k |-> "ignored"]

\* What an accessor's next_element / next_key hands back: Some(v) or None.
ItemNone == [k |-> "item_none"]
ItemSome(v) == [k |-> "item_some", v |-> v]

(***************************************************************************)
(* Scalar conversions.                                                     *)
(***************************************************************************)
Digits == <<"0", "1", "2", "3", "4", "5", "6", "7", "8", "9">>

RECURSIVE NatToStr(_)
\* u32::to_string and friends: the decimal digits, most significant first.
NatToStr(n) == IF n < 10 THEN Digits[n + 1] ELSE NatToStr(n \div 10) \o Digits[(n % 10) + 1]
IntToStr(n) == IF n < 0 THEN "-" \o NatToStr(-n) ELSE NatToStr(n)

\* The integers whose decimal text the model can tell apart.
MaxNum == 300
NumUniverse == (-MaxNum)..MaxNum
NumText == [n \in NumUniverse |-> IntToStr(n)]

IntMin(w) ==
    CASE w = "i8" -> -128
      [] w \in {"i16", "i32", "i64"} -> -MaxNum
      [] OTHER -> 0
IntMax(w) ==
    CASE w = "i8" -> 127
      [] w = "u8" -> 255
      [] OTHER -> MaxNum

\* s.parse::<T>() for an integer T: the number the digits spell, when it
\* lies in T's range; [ok |-> FALSE] otherwise.
ParseHits(s, w) == {n \in NumUniverse : NumText[n] = s /\ n >= IntMin(w) /\ n <= IntMax(w)}
ParseInt(s, w) ==
    IF ParseHits(s, w) = {} THEN [ok |-> FALSE, n |-> 0]
    ELSE [ok |-> TRUE, n |-> CHOOSE n \in ParseHits(s, w) : TRUE]

\* boolean_re, the two anchored alternations of from_str.
\* (BooleanTrueNonEmpty: the first alternation had it no empty alternative.)
BooleanTrueNonEmpty == {"y", "Y", "yes", "Yes", "YES", "true", "True", "TRUE", "on", "On", "ON"}
BooleanTrue == {"y", "Y", "yes", "Yes", "YES", "true", "True", "TRUE", "on", "On", "ON", ""}
BooleanFalse == {"n", "N", "no", "No", "NO", "false", "False", "FALSE", "off", "Off", "OFF"}
\* null_re
NullLiterals == {"null", "Null", "NULL", "~"}
null_re_is_match(s) == s \in NullLiterals

(***************************************************************************)
(* YamlDeserializer: the cursor and the structural assertions.             *)
(***************************************************************************)
\* `r?` followed by K: the failure r itself, or K of the Ok result.
Bind(r, K(_)) == IF r.st # "ok" THEN r ELSE K(r)
\* let x = ...; K
Let(x, K(_)) == K(x)

\* (next_event_repeating: next_event had it handed the event out without
\* moving past it.)
next_event_repeating(d) ==
    IF d.pos >= Len(stream) THEN Err(EarlyTermination, d)
    ELSE IF stream[d.pos + 1].k = "ScanError" THEN Err(ScanError, Advance(d))
    ELSE Ok([event |-> stream[d.pos + 1], span |-> d.pos + 1], d)

\* self.yaml.next_event(): the next event and its span, or None at the end.
next_event(d) ==
    IF d.pos >= Len(stream) THEN Err(EarlyTermination, d)
    ELSE IF stream[d.pos + 1].k = "ScanError" THEN Err(ScanError, Advance(d))
    ELSE Ok([event |-> stream[d.pos + 1], span |-> d.pos + 1], Advance(d))

\* self.yaml.peek() with its error dropped (.ok()): Some(event) without
\* taking it, None at the end or before a scan error.
peek_event(d) ==
    IF d.pos >= Len(stream) \/ stream[d.pos + 1].k = "ScanError"
    THEN [some |-> FALSE, event |-> Ev("none"), span |-> 0]
    ELSE [some |-> TRUE, event |-> stream[d.pos + 1], span |-> d.pos + 1]

\* (expect_event_peeking: the assertions had they looked at the event first
\* and taken it only when it is the expected one.)
expect_event_peeking(d, kind, location) ==
    Bind(next_event(d), LAMBDA n :
        IF n.v.event.k # kind THEN Err(unexpected(n.v.event, n.v.span, location), d)
        ELSE Ok(VUnit, n.de))

\* The shared body of start_stream .. end_map: take one event, compare its kind.
expect_event(d, kind, location) ==
    Bind(next_event(d), LAMBDA n :
        IF n.v.event.k # kind THEN Err(unexpected(n.v.event, n.v.span, location), n.de)
        ELSE Ok(VUnit, n.de))

start_stream(d) == Logged("start_stream", d, expect_event(d, "StreamStart", "start_stream"))
end_stream(d) == Logged("end_stream", d, expect_event(d, "StreamEnd", "end_stream"))
start_document(d) == Logged("start_document", d, expect_event(d, "DocumentStart", "start_document"))
end_document(d) == Logged("end_document", d, expect_event(d, "DocumentEnd", "end_document"))
start_sequence(d) == Logged("start_sequence", d, expect_event(d, "SequenceStart", "start_sequence"))
\* (end_sequence_custom: the assertion had it reported an element after the
\* last expected one as the framework's length error.)
end_sequence_custom(d) ==
    Logged("end_sequence", d,
        Bind(next_event(d), LAMBDA n :
            IF n.v.event.k # "SequenceEnd" THEN Err(custom("invalid length", "more"), n.de)
            ELSE Ok(VUnit, n.de)))
end_sequence(d) == Logged("end_sequence", d, expect_event(d, "SequenceEnd", "end_sequence"))
start_map(d) == Logged("start_map", d, expect_event(d, "MappingStart", "start_map"))
end_map(d) == Logged("end_map", d, expect_event(d, "MappingEnd", "end_map"))

RECURSIVE consume_map_loop(_)
consume_map_loop(d) ==
    Bind(next_event(d), LAMBDA n :
        IF n.v.event.k = "MappingEnd" THEN Ok(VUnit, n.de) ELSE consume_map_loop(n.de))
consume_map(d) == Logged("consume_map", d, consume_map_loop(d))

read_scalar_string(d) ==
    Bind(next_event(d), LAMBDA n :
        IF n.v.event.k = "Scalar" THEN Ok([s |-> n.v.event.text, span |-> n.v.span], n.de)
        ELSE Err(unexpected(n.v.event, n.v.span, "deserialize_str"), n.de))

peek_scalar_string(d) ==
    Let(peek_event(d), LAMBDA p :
        IF p.some /\ p.event.k = "Scalar" THEN [some |-> TRUE, s |-> p.event.text, span |-> p.span]
        ELSE [some |-> FALSE, s |-> "", span |-> 0])

read_boolean(d) ==
    Bind(read_scalar_string(d), LAMBDA r :
        IF r.v.s \in BooleanTrue THEN Ok(TRUE, r.de)
        ELSE IF r.v.s \in BooleanFalse THEN Ok(FALSE, r.de)
        ELSE Err(not_a_bool(r.v.s, r.v.span), r.de))

parse_scalar(d, w) ==
    Bind(read_scalar_string(d), LAMBDA r :
        Let(ParseInt(r.v.s, w), LAMBDA p :
            IF p.ok THEN Ok(p.n, r.de)
            ELSE Err(number_parse_failure(r.v.s, r.v.span, "parse_unsigned"), r.de)))

(***************************************************************************)
(* impl Deserializer for &mut YamlDeserializer, the accessors of seq.rs,   *)
(* mapping.rs and variant.rs, and the serde visitors that drive them.  A   *)
(* visitor is named by the type it builds.                                 *)
(***************************************************************************)
\* Every call that can come back to the decoder (a type's deserialize, a
\* visitor's visit_seq / visit_map, a visitor's loop) goes through Call.
RECURSIVE Call(_, _, _, _)
deserialize(seed, d) == Call("Deserialize", seed, d, <<>>)     \* seed.deserialize(&mut *self.de)
visit_seq(ty, d) == Call("visit_seq", ty, d, <<>>)             \* visitor.visit_seq(YamlSequence::new(self))
visit_map(ty, d) == Call("visit_map", ty, d, <<>>)             \* visitor.visit_map(YamlMapping::new(self))

IndexOfName(names, s) ==
    IF \E i \in DOMAIN names : names[i].name = s
    THEN CHOOSE i \in DOMAIN names : names[i].name = s /\ \A j \in 1..(i - 1) : names[j].name # s
    ELSE 0

\* (visit_str_denying: the field-name visitor had the struct denied unknown
\* fields.)
visit_str_denying(ty, s, d) ==
    CASE ty.k = "string" -> Ok(VStr(s), d)
      [] ty.k = "char" ->
            IF Len(s) = 1 THEN Ok(VChar(s), d) ELSE Err(custom("invalid value", s), d)
      [] ty.k \in {"any", "map_key"} -> Ok(VStr(s), d)
      [] ty.k = "ignored" -> Ok(VIgnored, d)
      [] ty.k = "field_of" ->
            IF IndexOfName(ty.of.fields, s) # 0 THEN Ok(VStr(s), d)
            ELSE Err(custom("unknown field", s), d)
      [] ty.k = "variant_of" ->
            IF IndexOfName(ty.of.variants, s) # 0 THEN Ok(VStr(s), d)
            ELSE Err(custom("unknown variant", s), d)
      [] OTHER -> Err(custom("invalid type", "string"), d)

\* Visitor::visit_str of the visitor that builds `ty`.
visit_str(ty, s, d) ==
    CASE ty.k = "string" -> Ok(VStr(s), d)
      [] ty.k = "char" ->
            IF Len(s) = 1 THEN Ok(VChar(s), d) ELSE Err(custom("invalid value", s), d)
      [] ty.k \in {"any", "map_key"} -> Ok(VStr(s), d)
      [] ty.k = "ignored" -> Ok(VIgnored, d)
      [] ty.k = "field_of" ->          \* the derived field-name visitor
            IF IndexOfName(ty.of.fields, s) # 0 THEN Ok(VStr(s), d) ELSE Ok(VIgnored, d)
      [] ty.k = "variant_of" ->        \* the derived variant-name visitor
            IF IndexOfName(ty.of.variants, s) # 0 THEN Ok(VStr(s), d)
            ELSE Err(custom("unknown variant", s), d)
      [] OTHER -> Err(custom("invalid type", "string"), d)

deserialize_bool(ty, d) ==
    Logged("deserialize_bool", d, Bind(read_boolean(d), LAMBDA r : Ok(VBool(r.v), r.de)))

deserialize_int(ty, d) ==
    Logged("deserialize_" \o ty.w, d, Bind(parse_scalar(d, ty.w), LAMBDA r : Ok(VInt(r.v), r.de)))

deserialize_str(ty, d) ==
    Logged("deserialize_str", d,
        Bind(read_scalar_string(d), LAMBDA r : visit_str(ty, r.v.s, r.de)))

deserialize_string(ty, d) ==
    Logged("deserialize_string", d,
        Bind(read_scalar_string(d), LAMBDA r : visit_str(ty, r.v.s, r.de)))

\* (deserialize_char_typed: deserialize_char had it checked the length itself
\* and answered TypeError.)
deserialize_char_typed(ty, d) ==
    Logged("deserialize_char", d,
        Logged("deserialize_str", d,
            Bind(read_scalar_string(d), LAMBDA r :
                IF Len(r.v.s) = 1 THEN Ok(VChar(r.v.s), r.de) ELSE Err(TypeError, r.de))))

deserialize_char(ty, d) == Logged("deserialize_char", d, deserialize_str(ty, d))

\* deserialize_bytes and deserialize_byte_buf
deserialize_bytes(ty, d) == Logged("deserialize_bytes", d, Panic("unimplemented!()", d))

deserialize_identifier(ty, d) ==
    Logged("deserialize_identifier", d,
        Bind(read_scalar_string(d), LAMBDA r : visit_str(ty, r.v.s, r.de)))

\* The match both deserialize_unit and deserialize_option open with.
peek_is_null(d) ==
    Let(peek_scalar_string(d), LAMBDA p : p.some /\ null_re_is_match(p.s))

\* (deserialize_unit_taking: deserialize_unit had it read the scalar with
\* next_event before matching it.)
deserialize_unit_taking(ty, d) ==
    Logged("deserialize_unit", d,
        Bind(next_event(d), LAMBDA n :
            IF n.v.event.k = "Scalar" /\ null_re_is_match(n.v.event.text)
            THEN Ok(VUnit, n.de) ELSE Err(TypeError, n.de)))

deserialize_unit(ty, d) ==
    Logged("deserialize_unit", d,
        IF peek_is_null(d)
        THEN Bind(next_event(d), LAMBDA n : Ok(VUnit, n.de))
        ELSE Err(TypeError, d))

deserialize_unit_struct(ty, d) == Logged("deserialize_unit_struct", d, deserialize_unit(ty, d))

\* (deserialize_option_peeking: deserialize_option had it left the null
\* scalar in the stream.)
deserialize_option_peeking(ty, d) ==
    Logged("deserialize_option", d,
        IF peek_is_null(d)
        THEN Ok(VNone, d)
        ELSE Bind(deserialize(ty.of, d), LAMBDA r : Ok(VSome(r.v), r.de)))

deserialize_option(ty, d) ==
    Logged("deserialize_option", d,
        IF peek_is_null(d)
        THEN Bind(next_event(d), LAMBDA n : Ok(VNone, n.de))
        ELSE Bind(deserialize(ty.of, d), LAMBDA r : Ok(VSome(r.v), r.de)))   \* visit_some(self)

deserialize_newtype_struct(ty, d) ==
    Logged("deserialize_newtype_struct", d, deserialize(ty.of, d))

deserialize_seq(ty, d) ==
    Logged("deserialize_seq", d,
        Bind(start_sequence(d), LAMBDA a :
        Bind(visit_seq(ty, a.de), LAMBDA b :
        Bind(end_sequence(b.de), LAMBDA c : Ok(b.v, c.de)))))

\* (deserialize_tuple_unchecked: deserialize_tuple had it not asserted the
\* sequence's end.)
deserialize_tuple_unchecked(ty, d) ==
    Logged("deserialize_tuple", d, Bind(start_sequence(d), LAMBDA a : visit_seq(ty, a.de)))

deserialize_tuple(ty, d) == Logged("deserialize_tuple", d, deserialize_seq(ty, d))

deserialize_tuple_struct(ty, d) == Logged("deserialize_tuple_struct", d, deserialize_tuple(ty, d))

deserialize_map(ty, d) ==
    Logged("deserialize_map", d,
        Bind(start_map(d), LAMBDA a :
        Bind(visit_map(ty, a.de), LAMBDA b :
        Bind(end_map(b.de), LAMBDA c : Ok(b.v, c.de)))))

deserialize_struct(ty, d) == Logged("deserialize_struct", d, deserialize_map(ty, d))

\* `let result = visitor.visit_..(..); self.consume_map()?; result`: the
\* visitor's result is kept while the rest of the collection is taken, and
\* a failure of taking it replaces the result.
KeepResult(res, c) == IF c.st # "ok" THEN c ELSE [res EXCEPT !.de = c.de]

deserialize_any(ty, d) ==
    Logged("deserialize_any", d,
        Bind(next_event(d), LAMBDA n :
            CASE n.v.event.k = "Scalar" -> visit_str(ty, n.v.event.text, n.de)
              [] n.v.event.k = "MappingStart" ->
                    Let(visit_map(ty, n.de), LAMBDA res :
                        IF res.st = "panic" THEN res ELSE KeepResult(res, consume_map(res.de)))
              [] n.v.event.k = "SequenceStart" ->
                    Let(visit_seq(ty, n.de), LAMBDA res :
                        IF res.st = "panic" THEN res ELSE KeepResult(res, end_sequence(res.de)))
              [] OTHER -> Err(unexpected(n.v.event, n.v.span, "deserialize_any"), n.de)))

deserialize_ignored_any(ty, d) == Logged("deserialize_ignored_any", d, deserialize_any(ty, d))

\* variant.rs, impl VariantAccess for Enum
unit_variant(d) == Logged("unit_variant", d, Panic("todo!()", d))
newtype_variant_seed(ty, d) == Logged("newtype_variant_seed", d, Panic("todo!()", d))
tuple_variant(ty, d) == Logged("tuple_variant", d, Panic("todo!()", d))
struct_variant(ty, d) == Logged("struct_variant", d, deserialize_map(ty, d))

\* variant.rs, impl EnumAccess for Enum
variant_seed(ty, d) == Logged("variant_seed", d, deserialize([k |-> "variant_of", of |-> ty], d))

\* The payload of variant `var`, read through the VariantAccess method the
\* derived visitor calls for its kind.
VariantPayload(var, d) ==
    CASE var.kind = "unit" -> unit_variant(d)
      [] var.kind = "newtype" -> newtype_variant_seed(var.ty, d)
      [] var.kind = "tuple" -> tuple_variant(var.ty, d)
      [] var.kind = "struct" -> struct_variant(var.ty, d)

\* The derived enum visitor's visit_enum, given Enum (the mapping form).
visit_enum(ty, d) ==
    Bind(variant_seed(ty, d), LAMBDA tag :
        Let(ty.variants[IndexOfName(ty.variants, tag.v.s)], LAMBDA var :
            Bind(VariantPayload(var, tag.de), LAMBDA pay : Ok(VVariant(var.name, pay.v), pay.de))))

\* The derived enum visitor's visit_enum, given s.into_deserializer(): the
\* tag is the string, and only a unit variant can be read from it.
visit_enum_str(ty, s, d) ==
    IF IndexOfName(ty.variants, s) = 0 THEN Err(custom("unknown variant", s), d)
    ELSE IF ty.variants[IndexOfName(ty.variants, s)].kind = "unit"
         THEN Ok(VVariant(s, VUnit), d)
         ELSE Err(custom("invalid type", "unit variant"), d)

\* (deserialize_enum_with_payload: deserialize_enum had it read a payload
\* node after a bare scalar tag.)
deserialize_enum_with_payload(ty, d) ==
    Logged("deserialize_enum", d,
        Bind(next_event(d), LAMBDA n :
            CASE n.v.event.k = "Scalar" ->
                    Bind(visit_enum_str(ty, n.v.event.text, n.de), LAMBDA v :
                    Bind(next_event(v.de), LAMBDA pay : Ok(v.v, pay.de)))
              [] n.v.event.k = "MappingStart" ->
                    Bind(visit_enum(ty, n.de), LAMBDA v :
                    Bind(end_map(v.de), LAMBDA c : Ok(v.v, c.de)))
              [] OTHER -> Err(unexpected(n.v.event, n.v.span, "deserialize_enum"), n.de)))

deserialize_enum(ty, d) ==
    Logged("deserialize_enum", d,
        Bind(next_event(d), LAMBDA n :
            CASE n.v.event.k = "Scalar" -> visit_enum_str(ty, n.v.event.text, n.de)
              [] n.v.event.k = "MappingStart" ->
                    Bind(visit_enum(ty, n.de), LAMBDA v :
                    Bind(end_map(v.de), LAMBDA c : Ok(v.v, c.de)))
              [] OTHER -> Err(unexpected(n.v.event, n.v.span, "deserialize_enum"), n.de)))

\* The shared body of next_element_seed and next_key_seed: unwrap the peek,
\* take the end marker and answer None, or deserialize one item.
next_item(seed, d, endEvent) ==
    Let(peek_event(d), LAMBDA p :
        IF ~p.some THEN Panic("unwrap on None", d)
        ELSE IF p.event = endEvent THEN Ok(ItemNone, Advance(d))
        ELSE Bind(deserialize(seed, d), LAMBDA r : Ok(ItemSome(r.v), r.de)))

\* seq.rs
next_element_seed(seed, d) == Logged("next_element_seed", d, next_item(seed, d, SequenceEnd))

\* mapping.rs
next_key_seed(seed, d) == Logged("next_key_seed", d, next_item(seed, d, MappingEnd))
next_value_seed(seed, d) == Logged("next_value_seed", d, deserialize(seed, d))

\* Vec<T>'s visitor (and serde_json::Value's, IgnoredAny's): next_element
\* until it answers None.
VecVisitor_visit_seq(elem, d, acc) ==
    Bind(next_element_seed(elem, d), LAMBDA r :
        IF r.v = ItemNone THEN Ok(VSeq(acc), r.de)
        ELSE Call("VecVisitor_visit_seq", elem, r.de, Append(acc, r.v.v)))

\* A tuple's visitor: one next_element per position, and no more.
TupleVisitor_visit_seq(ts, d, acc) ==
    IF Len(acc) = Len(ts) THEN Ok(VSeq(acc), d)
    ELSE Bind(next_element_seed(ts[Len(acc) + 1], d), LAMBDA r :
            IF r.v = ItemNone THEN Err(custom("invalid length", IntToStr(Len(acc))), r.de)
            ELSE Call("TupleVisitor_visit_seq", ts, r.de, Append(acc, r.v.v)))

HasField(acc, name) == \E i \in DOMAIN acc : acc[i][1] = name
FieldValue(acc, name) == acc[CHOOSE i \in DOMAIN acc : acc[i][1] = name][2]
MissingFields(ty, acc) ==
    {i \in DOMAIN ty.fields : ~HasField(acc, ty.fields[i].name) /\ ty.fields[i].ty.k # "option"}

\* After the last key: every declared field in declaration order; an absent
\* Option field is None, any other absent field is "missing field".
StructVisitor_finish(ty, acc, d) ==
    IF MissingFields(ty, acc) # {}
    THEN Err(custom("missing field",
                    ty.fields[CHOOSE i \in MissingFields(ty, acc) :
                                \A j \in MissingFields(ty, acc) : i <= j].name), d)
    ELSE Ok(VStruct([i \in DOMAIN ty.fields |->
                        <<ty.fields[i].name,
                          IF HasField(acc, ty.fields[i].name)
                          THEN FieldValue(acc, ty.fields[i].name) ELSE VNone>>]), d)

\* A derived struct's visitor: next_key until None; a known key's value is
\* read as the field's type, an unknown key's value as IgnoredAny.
StructVisitor_visit_map(ty, d, acc) ==
    Bind(next_key_seed([k |-> "field_of", of |-> ty], d), LAMBDA key :
        IF key.v = ItemNone THEN StructVisitor_finish(ty, acc, key.de)
        ELSE IF key.v.v = VIgnored
        THEN Bind(next_value_seed(TIgnored, key.de), LAMBDA val :
                Call("StructVisitor_visit_map", ty, val.de, acc))
        ELSE IF HasField(acc, key.v.v.s) THEN Err(custom("duplicate field", key.v.v.s), key.de)
        ELSE Bind(next_value_seed(ty.fields[IndexOfName(ty.fields, key.v.v.s)].ty, key.de),
                  LAMBDA val :
                    Call("StructVisitor_visit_map", ty, val.de, Append(acc, <<key.v.v.s, val.v>>))))

\* serde_json::Value's and IgnoredAny's visit_map: next_key / next_value
\* until next_key answers None.
MapVisitor_visit_map(ty, d, acc) ==
    Bind(next_key_seed(IF ty.k = "any" THEN TMapKey ELSE ty, d), LAMBDA key :
        IF key.v = ItemNone THEN Ok(IF ty.k = "any" THEN VMap(acc) ELSE VIgnored, key.de)
        ELSE Bind(next_value_seed(ty, key.de), LAMBDA val :
                Call("MapVisitor_visit_map", ty, val.de, Append(acc, <<key.v.v, val.v>>))))

\* The fields of `var` found in the buffered content of a mapping, in
\* document order; other keys are ignored.
ContentFields(var, content) ==
    LET sel == SelectSeq(content, LAMBDA p : p[1].k = "str" /\ IndexOfName(var.ty.fields, p[1].s) # 0)
    IN  [i \in DOMAIN sel |-> <<sel[i][1].s, sel[i][2]>>]

\* The derived visitor of an internally tagged enum, once the framework has
\* the tag and the buffered content: the variant's fields are read from the
\* content, not from the decoder.
VariantFromContent(ty, name, content, d) ==
    Let(ty.variants[IndexOfName(ty.variants, name)], LAMBDA var :
        IF \E i \in DOMAIN ContentFields(var, content) : ContentFields(var, content)[i][2].k # "str"
        THEN Err(custom("invalid type", "string"), d)
        ELSE Bind(StructVisitor_finish(var.ty, ContentFields(var, content), d), LAMBDA st :
                Ok(VVariant(var.name, st.v), st.de)))

VariantFromSeq(ty, name, xs, d) ==
    Let(ty.variants[IndexOfName(ty.variants, name)], LAMBDA var :
        IF Len(xs) # Len(var.ty.fields) THEN Err(custom("invalid length", NatToStr(Len(xs))), d)
        ELSE IF \E i \in DOMAIN xs : xs[i].k # "str" THEN Err(custom("invalid type", "string"), d)
        ELSE Ok(VVariant(var.name, VStruct([i \in DOMAIN xs |-> <<var.ty.fields[i].name, xs[i]>>])), d))

\* The framework's visitor for an internally tagged enum, given the map
\* accessor: every key is read with deserialize_any; the tag's value is read
\* as the variant identifier, every other value is buffered as content.
TaggedContentVisitor_visit_map(ty, d, acc) ==
    Bind(next_key_seed(TAny, d), LAMBDA key :
        IF key.v = ItemNone
        THEN IF acc.tag = <<>> THEN Err(custom("missing field", ty.tag), key.de)
             ELSE VariantFromContent(ty, acc.tag[1], acc.content, key.de)
        ELSE IF key.v.v = VStr(ty.tag)
        THEN IF acc.tag # <<>> THEN Err(custom("duplicate field", ty.tag), key.de)
             ELSE Bind(next_value_seed([k |-> "variant_of", of |-> ty], key.de), LAMBDA val :
                    Call("TaggedContentVisitor_visit_map", ty, val.de,
                         [acc EXCEPT !.tag = <<val.v.s>>]))
        ELSE Bind(next_value_seed(TAny, key.de), LAMBDA val :
                Call("TaggedContentVisitor_visit_map", ty, val.de,
                     [acc EXCEPT !.content = Append(@, <<key.v.v, val.v>>)])))

\* The same visitor given the sequence accessor: the first element is the
\* tag, the rest is the content.
TaggedContentVisitor_visit_seq(ty, d) ==
    Bind(next_element_seed([k |-> "variant_of", of |-> ty], d), LAMBDA tag :
        IF tag.v = ItemNone THEN Err(custom("missing field", ty.tag), tag.de)
        ELSE Bind(VecVisitor_visit_seq(TAny, tag.de, <<>>), LAMBDA rest :
                VariantFromSeq(ty, tag.v.v.s, rest.v.xs, rest.de)))

\* Visitor::visit_seq of the visitor that builds `ty`.
Visitor_visit_seq(ty, d) ==
    CASE ty.k = "vec" -> VecVisitor_visit_seq(ty.of, d, <<>>)
      [] ty.k \in {"tuple", "tuple_struct"} -> TupleVisitor_visit_seq(ty.ts, d, <<>>)
      [] ty.k = "any" -> VecVisitor_visit_seq(ty, d, <<>>)
      [] ty.k = "ignored" ->
            Bind(VecVisitor_visit_seq(ty, d, <<>>), LAMBDA r : Ok(VIgnored, r.de))
      [] ty.k = "tagged" -> TaggedContentVisitor_visit_seq(ty, d)
      [] OTHER -> Err(custom("invalid type", "sequence"), d)

\* Visitor::visit_map of the visitor that builds `ty`.
Visitor_visit_map(ty, d) ==
    CASE ty.k = "struct" -> StructVisitor_visit_map(ty, d, <<>>)
      [] ty.k \in {"any", "ignored"} -> MapVisitor_visit_map(ty, d, <<>>)
      [] ty.k = "tagged" ->
            TaggedContentVisitor_visit_map(ty, d, [tag |-> <<>>, content |-> <<>>])
      [] OTHER -> Err(custom("invalid type", "map"), d)

\* T::deserialize(&mut deserializer): the method each type asks for.
Deserialize(ty, d) ==
    CASE ty.k = "bool" -> deserialize_bool(ty, d)
      [] ty.k = "int" -> deserialize_int(ty, d)
      [] ty.k = "string" -> deserialize_string(ty, d)
      [] ty.k = "char" -> deserialize_char(ty, d)
      [] ty.k = "unit" -> deserialize_unit(ty, d)
      [] ty.k = "unit_struct" -> deserialize_unit_struct(ty, d)
      [] ty.k = "option" -> deserialize_option(ty, d)
      [] ty.k = "newtype_struct" -> deserialize_newtype_struct(ty, d)
      [] ty.k = "vec" -> deserialize_seq(ty, d)
      [] ty.k = "tuple" -> deserialize_tuple(ty, d)
      [] ty.k = "tuple_struct" -> deserialize_tuple_struct(ty, d)
      [] ty.k = "struct" -> deserialize_struct(ty, d)
      [] ty.k = "enum" -> deserialize_enum(ty, d)
      [] ty.k \in {"any", "tagged"} -> deserialize_any(ty, d)
      [] ty.k = "bytes" -> deserialize_bytes(ty, d)
      [] ty.k = "ignored" -> deserialize_ignored_any(ty, d)
      [] ty.k = "map_key" -> deserialize_str(ty, d)
      [] ty.k \in {"field_of", "variant_of"} -> deserialize_identifier(ty, d)

Call(f, ty, d, acc) ==
    CASE f = "Deserialize" -> Deserialize(ty, d)
      [] f = "visit_seq" -> Visitor_visit_seq(ty, d)
      [] f = "visit_map" -> Visitor_visit_map(ty, d)
      [] f = "VecVisitor_visit_seq" -> VecVisitor_visit_seq(ty, d, acc)
      [] f = "TupleVisitor_visit_seq" -> TupleVisitor_visit_seq(ty, d, acc)
      [] f = "StructVisitor_visit_map" -> StructVisitor_visit_map(ty, d, acc)
      [] f = "MapVisitor_visit_map" -> MapVisitor_visit_map(ty, d, acc)
      [] f = "TaggedContentVisitor_visit_map" -> TaggedContentVisitor_visit_map(ty, d, acc)

(***************************************************************************)
(* ser/serializer.rs.  The output is the sequence of the strings appended  *)
(* to it (an empty string appends nothing).  The serializer's recursion is *)
(* unfolded into `work`: the calls still to make, innermost first.         *)
(***************************************************************************)
Push(out, str) == IF str = "" THEN out ELSE Append(out, str)

RECURSIVE Spaces(_)
Spaces(n) == IF n <= 0 THEN "" ELSE " " \o Spaces(n - 1)

ends_with_colon(out) == out # <<>> /\ out[Len(out)] = ":"

\* (newline_with_indent_always: newline_with_indent had it not tested for
\* an empty output.)
newline_with_indent_always(out, ind) == Push(Append(out, "\n"), Spaces(ind * 2))
newline_with_indent(out, ind) ==
    IF out # <<>> THEN Push(Append(out, "\n"), Spaces(ind * 2)) ELSE out

\* (end_file_unless_empty: end_file had it shared newline_with_indent's
\* test and left an empty text alone.)
end_file_unless_empty(out) == IF out # <<>> THEN Append(out, "\n") ELSE out
end_file(out) == Append(out, "\n")

\* Work items.
WSerialize(ty, v) == [op |-> "serialize", ty |-> ty, v |-> v, key |-> ""]
WElement(ty, v) == [op |-> "serialize_element", ty |-> ty, v |-> v, key |-> ""]
WField(key, ty, v) == [op |-> "serialize_field", ty |-> ty, v |-> v, key |-> key]
WOutdent == [op |-> "decrease_indent", ty |-> TUnit, v |-> VUnit, key |-> ""]

\* (VariantEndForgotten, VariantEndTwice: end() had it left the indent
\* alone, or decreased it twice.)
VariantEndForgotten == <<>>
VariantEndTwice == <<WOutdent, WOutdent>>
\* SerializeTupleVariant::end and SerializeStructVariant::end:
\* decrease_indent, undoing the increase of serialize_.._variant.
VariantEnd == <<WOutdent>>

\* What the shape of (ty, v) makes value.serialize(serializer) call.
SerializeMethod(ty, v) ==
    CASE ty.k = "int" -> "serialize_" \o ty.w
      [] ty.k = "string" -> "serialize_str"
      [] ty.k = "bool" -> "serialize_bool"
      [] ty.k = "char" -> "serialize_char"
      [] ty.k = "unit" -> "serialize_unit"
      [] ty.k = "unit_struct" -> "serialize_unit_struct"
      [] ty.k = "option" -> IF v = VNone THEN "serialize_none" ELSE "serialize_some"
      [] ty.k = "newtype_struct" -> "serialize_newtype_struct"
      [] ty.k = "vec" -> "serialize_seq"
      [] ty.k = "tuple" -> "serialize_tuple"
      [] ty.k = "tuple_struct" -> "serialize_tuple_struct"
      [] ty.k = "struct" -> "serialize_struct"
      [] ty.k = "enum" ->
            "serialize_" \o ty.variants[IndexOfName(ty.variants, v.name)].kind \o "_variant"
      [] ty.k = "map" -> "serialize_map"

\* The methods that are not todo!().  (serialize_map itself returns the
\* serializer, but SerializeMap's serialize_key, serialize_value and end are
\* todo!(), so serializing any map aborts.)
Implemented ==
    {"serialize_u32", "serialize_u64", "serialize_str", "serialize_unit_variant",
     "serialize_newtype_variant", "serialize_seq", "serialize_tuple_variant",
     "serialize_struct", "serialize_struct_variant"}

VariantOf(ty, v) == ty.variants[IndexOfName(ty.variants, v.name)]

(***************************************************************************)
(* The text the parser is given, read back as block YAML.  Only the block  *)
(* syntax the serializer writes is read: lines of two-space indentation, a *)
(* "- " marker, "key:" or "key: value", plain scalars.  A ':' is a key     *)
(* indicator only before a space or at the end of its line.                *)
(***************************************************************************)
RECURSIVE SplitLines(_, _, _)
SplitLines(out, i, cur) ==
    IF i > Len(out) THEN (IF cur = <<>> THEN <<>> ELSE <<cur>>)
    ELSE IF out[i] = "\n"
         THEN (IF cur = <<>> THEN <<>> ELSE <<cur>>) \o SplitLines(out, i + 1, <<>>)
         ELSE SplitLines(out, i + 1, Append(cur, out[i]))

RECURSIVE Concat(_)
Concat(chunks) == IF chunks = <<>> THEN "" ELSE Head(chunks) \o Concat(Tail(chunks))

IsSpaces(str) == str = Spaces(Len(str))

\* The tokens of one line: a dash at its column, then a key, a key with
\* its value, or a plain scalar at the column after it.
LineTokens(line) ==
    LET ind == IF IsSpaces(line[1]) THEN Len(line[1]) ELSE 0
        l1 == IF IsSpaces(line[1]) THEN Tail(line) ELSE line
        dash == l1 # <<>> /\ l1[1] = "- "
        rest == IF dash THEN Tail(l1) ELSE l1
        col == IF dash THEN ind + 2 ELSE ind
        colons == {i \in DOMAIN rest : rest[i] = ":" /\ (i = Len(rest) \/ rest[i + 1] = " ")}
        c == CHOOSE i \in colons : \A j \in colons : i <= j
        content ==
            IF rest = <<>> THEN <<>>
            ELSE IF colons = {} THEN <<[col |-> col, kind |-> "scalar", key |-> "", text |-> Concat(rest)]>>
            ELSE IF c = Len(rest)
            THEN <<[col |-> col, kind |-> "key", key |-> Concat(SubSeq(rest, 1, c - 1)), text |-> ""]>>
            ELSE <<[col |-> col, kind |-> "keyval", key |-> Concat(SubSeq(rest, 1, c - 1)),
                    text |-> Concat(SubSeq(rest, c + 2, Len(rest)))]>>
    IN (IF dash THEN <<[col |-> ind, kind |-> "dash", key |-> "", text |-> ""]>> ELSE <<>>) \o content

RECURSIVE Tokens(_)
Tokens(lines) == IF lines = <<>> THEN <<>> ELSE LineTokens(Head(lines)) \o Tokens(Tail(lines))

RECURSIVE ParseNode(_, _, _)
RECURSIVE ParseItems(_, _, _, _)
RECURSIVE ParseEntries(_, _, _, _)
RECURSIVE ParsePlain(_, _, _, _)

\* The node starting at token i, if that token is at column minCol or
\* further right; an empty node otherwise.  [node, next].
ParseNode(ts, i, minCol) ==
    IF i > Len(ts) \/ ts[i].col < minCol THEN [node |-> DEmpty, next |-> i]
    ELSE CASE ts[i].kind = "dash" -> ParseItems(ts, i, ts[i].col, <<>>)
           [] ts[i].kind = "scalar" -> ParsePlain(ts, i + 1, minCol, ts[i].text)
           [] OTHER -> ParseEntries(ts, i, ts[i].col, <<>>)

ParseItems(ts, i, col, acc) ==
    IF i <= Len(ts) /\ ts[i].kind = "dash" /\ ts[i].col = col
    THEN LET item == ParseNode(ts, i + 1, col + 1)
         IN ParseItems(ts, item.next, col, Append(acc, item.node))
    ELSE [node |-> DSeq(acc), next |-> i]

ParseEntries(ts, i, col, acc) ==
    IF i <= Len(ts) /\ ts[i].kind \in {"key", "keyval"} /\ ts[i].col = col
    THEN IF ts[i].kind = "keyval"
         THEN ParseEntries(ts, i + 1, col, Append(acc, <<DScalar(ts[i].key), DScalar(ts[i].text)>>))
         ELSE LET val == ParseNode(ts, i + 1, col + 1)
              IN ParseEntries(ts, val.next, col, Append(acc, <<DScalar(ts[i].key), val.node>>))
    ELSE [node |-> DMap(acc), next |-> i]

\* A plain scalar goes on over the following lines that hold plain text.
ParsePlain(ts, i, minCol, text) ==
    IF i <= Len(ts) /\ ts[i].kind = "scalar" /\ ts[i].col >= minCol
    THEN ParsePlain(ts, i + 1, minCol, text \o " " \o ts[i].text)
    ELSE [node |-> DScalar(text), next |-> i]

\* Parser::new_from_str(text): the events of the one document in the text;
\* what is left over after its root node is a scan error.
ParseYaml(out) ==
    LET ts == Tokens(SplitLines(out, 1, <<>>))
        root == ParseNode(ts, 1, 0)
    IN IF root.next > Len(ts) THEN StreamOf(<<root.node>>)
       ELSE <<StreamStart, DocumentStart>> \o NodeEvents(root.node) \o <<Ev("ScanError")>>

(***************************************************************************)
(* The types and documents of the runs.                                    *)
(***************************************************************************)
Address == TStruct(<<Field("street", TString), Field("state", TString)>>)
Point == TStruct(<<Field("x", TInt("i32")), Field("y", TInt("i32"))>>)
NestedAddress == TStruct(<<Field("address", Address)>>)
TestEnum == TEnum(<<Variant("ValueA", "unit", TUnit), Variant("ValueB", "unit", TUnit)>>)
StructWithEnum == TStruct(<<Field("value", TestEnum)>>)
TestExternallyTaggedEnum ==
    TEnum(<<Variant("ValueA", "struct", TStruct(<<Field("id", TString), Field("method", TString)>>)),
            Variant("ValueB", "struct", TStruct(<<Field("id", TString), Field("result", TString)>>))>>)
Message ==
    TTagged("type",
        <<Variant("Request", "struct", TStruct(<<Field("id", TString), Field("method", TString)>>)),
          Variant("Response", "struct", TStruct(<<Field("id", TString), Field("result", TString)>>))>>)
TupleVariant == TEnum(<<Variant("T", "tuple", TTuple(<<TInt("u8"), TInt("u8")>>))>>)
MixedEnum ==
    TEnum(<<Variant("Unit", "unit", TUnit),
            Variant("Newtype", "newtype", TInt("u32")),
            Variant("Tuple", "tuple", TTuple(<<TInt("u32"), TInt("u32")>>)),
            Variant("Struct", "struct", TStruct(<<Field("a", TInt("u32"))>>))>>)
TestBool == TStruct(<<Field("b", TBool)>>)
PointTupleStruct == TTupleStruct(<<TInt("i32"), TInt("i32")>>)
StringAndInt == TTuple(<<TString, TInt("i32")>>)
TestOption == TStruct(<<Field("opt", TOption(TString))>>)

Types ==
    {TBool, TString, TChar, TUnit, TUnitStruct, TInt("u8"), TInt("i32"), TInt("u32"),
     TOption(TString), TOption(TVec(TString)), TNewtypeStruct(TInt("u32")),
     TVec(TString), TVec(TInt("u32")), TVec(Address), TVec(TestExternallyTaggedEnum),
     TVec(MixedEnum), TVec(TestEnum),
     StringAndInt, PointTupleStruct, Address, Point, NestedAddress, TestEnum,
     StructWithEnum, TestExternallyTaggedEnum, TupleVariant, MixedEnum, TestBool,
     TestOption, TAny, Message, TBytes, TVec(TVec(TVec(TString))),
     TStruct(<<Field("nested", NestedAddress)>>)}

\* Bounds of the documents.
MaxSeq == 2      \* most items of a generated sequence

BoolTexts == BooleanTrue \cup BooleanFalse \cup {"tRUE", "not_a_boolean", "TRue", "oN", "yES", "0", "1"}
NullTexts == {"null", "Null", "NULL", "~", "", "nULL", "Nil"}
NameTexts == {"foo", "a", "ab", "ValueA", "ValueB", "ValueC", "Unit", "Newtype", "T", "27", "256", "-5"}
ScalarTexts == BoolTexts \cup NullTexts \cup NameTexts

SeqsOf(S, n) == UNION {[1..m -> S] : m \in 0..n}

ScalarDocs == {DScalar(t) : t \in ScalarTexts} \cup {DEmpty}

AddressDocs ==
    {DMap(<<<<DScalar("street"), DScalar(s)>>, <<DScalar("state"), v>>>>) :
        s \in {"Kerkstraat", "Main Street"}, v \in {DScalar("Noord Holland"), DEmpty}}

FullAddressDocs == {doc \in AddressDocs : doc.entries[2][2].k = "scalar"}

\* An address with one undeclared key (zip) before, between or after its
\* declared keys.
InsertAt(seq, i, x) == SubSeq(seq, 1, i - 1) \o <<x>> \o SubSeq(seq, i, Len(seq))
AddressExtraDocs ==
    {DMap(InsertAt(<<<<DScalar("street"), DScalar(s)>>, <<DScalar("state"), DScalar("Noord Holland")>>>>,
                   i, <<DScalar("zip"), DScalar("1234")>>)) :
        s \in {"Kerkstraat", "Main Street"}, i \in 1..3}

PointDocs ==
    {DMap(<<<<DScalar(k1), DScalar(a)>>, <<DScalar(k2), DScalar(b)>>>>) :
        k1 \in {"x", "y"}, k2 \in {"y", "z"}, a \in {"10", "-5"}, b \in {"45", "ab"}}

TaggedDocs ==
    {DMap(<<<<DScalar(tag), pay>>>>) :
        tag \in {"ValueA", "ValueB", "ValueC"},
        pay \in {DMap(<<<<DScalar("id"), DScalar("foo")>>, <<DScalar("method"), DScalar("bar")>>>>),
                 DMap(<<<<DScalar("id"), DScalar("baz")>>, <<DScalar("result"), DScalar("passed")>>>>)}}

\* Messages: the tag `type` before or after the variant's fields.
MessageDocs ==
    {DMap(InsertAt(<<<<DScalar("id"), DScalar("foo")>>, <<DScalar(k), DScalar("PUT")>>>>,
                   i, <<DScalar("type"), DScalar(t)>>)) :
        k \in {"method", "result"}, i \in {1, 3},
        t \in {"Request", "Response", "UnknownVariant"}}
    \cup {DMap(<<<<DScalar("type"), DScalar(t)>>,
                 <<DScalar("id"), DMap(<<<<DScalar("a"), DScalar("b")>>>>)>>,
                 <<DScalar("method"), DScalar("PUT")>>>>) : t \in {"Request", "UnknownVariant"}}

MixedDocs ==
    {DScalar("Unit"),
     DMap(<<<<DScalar("Unit"), DEmpty>>>>),
     DMap(<<<<DScalar("Newtype"), DScalar("1")>>>>),
     DMap(<<<<DScalar("Tuple"), DSeq(<<DScalar("1"), DScalar("2")>>)>>>>),
     DMap(<<<<DScalar("T"), DSeq(<<DScalar("27"), DScalar("32")>>)>>>>),
     DMap(<<<<DScalar("Struct"), DMap(<<<<DScalar("a"), DScalar("1")>>>>)>>>>)}

OneFieldDocs ==
    {DMap(<<<<DScalar(k), v>>>>) :
        k \in {"b", "opt", "value", "address"},
        v \in {DScalar("True"), DScalar("tRUE"), DScalar("null"), DScalar(""), DScalar("foo"),
               DScalar("ValueA"), DEmpty} \cup AddressDocs \cup AddressExtraDocs}

\* Three levels of one kind: a mapping in a mapping in a mapping, a sequence
\* in a sequence in a sequence.
DeepDocs ==
    {DMap(<<<<DScalar("nested"), DMap(<<<<DScalar("address"), a>>>>)>>>>) : a \in FullAddressDocs}
    \cup {DSeq(<<DSeq(<<DSeq(<<DScalar("abc")>>)>>)>>)}

MapDocs == AddressDocs \cup AddressExtraDocs \cup MessageDocs \cup DeepDocs \cup PointDocs \cup TaggedDocs \cup MixedDocs \cup OneFieldDocs

SeqDocs ==
    {DSeq(items) : items \in SeqsOf({DScalar("abc"), DScalar("27")}, MaxSeq + 1)}
    \cup {DSeq(items) : items \in SeqsOf(AddressDocs, MaxSeq)}
    \cup {DSeq(items) : items \in SeqsOf(TaggedDocs, MaxSeq)}
    \cup {DSeq(items) : items \in SeqsOf(MixedDocs, MaxSeq)}

Docs == ScalarDocs \cup MapDocs \cup SeqDocs

\* The texts handed to from_str: one document, or two documents of which
\* the second is a scalar or a mapping.
Inputs ==
    {<<doc>> : doc \in Docs}
    \cup {<<doc, more>> : doc \in ScalarDocs \cup AddressDocs \cup {DSeq(<<DScalar("abc")>>)},
                          more \in {DScalar("foo")} \cup AddressDocs}

\* Streams that break off: a document's events up to some point, followed
\* by nothing (the parser has no more events) or by a scan error.
BrokenDocs ==
    {DScalar("foo"), DSeq(<<DScalar("abc"), DScalar("27")>>),
     DMap(<<<<DScalar("street"), DScalar("Kerkstraat")>>, <<DScalar("state"), DScalar("Noord Holland")>>>>)}
BrokenStreams ==
    UNION {{SubSeq(StreamOf(<<doc>>), 1, n) \o tail :
                n \in 0..(Len(StreamOf(<<doc>>)) - 1), tail \in {<<>>, <<Ev("ScanError")>>}} :
            doc \in BrokenDocs}

\* The values handed to to_string, each with its type.
TV(ty, v) == [ty |-> ty, v |-> v]
TestStruct == TStruct(<<Field("int", TInt("u32")), Field("seq", TVec(TString))>>)
PointU32 == TStruct(<<Field("x", TInt("u32")), Field("y", TInt("u32"))>>)

MixedValues ==
    {VVariant("Unit", VUnit), VVariant("Newtype", VInt(1)),
     VVariant("Tuple", VSeq(<<VInt(1), VInt(2)>>)),
     VVariant("Struct", VStruct(<<<<"a", VInt(1)>>>>))}
AddressValues ==
    {VStruct(<<<<"street", VStr(s)>>, <<"state", VStr("Noord Holland")>>>>) :
        s \in {"Kerkstraat", "Main Street"}}

\* One scalar of each kind the serializer writes, as the value of a struct
\* field `name` and as the payload of a newtype variant `Newtype`.
ScalarValues ==
    {TV(TString, VStr("foo")), TV(TInt("u32"), VInt(27)), TV(TInt("u64"), VInt(27)),
     TV(TestEnum, VVariant("ValueA", VUnit))}
ScalarFieldValues ==
    {TV(TStruct(<<Field("name", sv.ty)>>), VStruct(<<<<"name", sv.v>>>>)) : sv \in ScalarValues}
ScalarNewtypeValues ==
    {TV(TEnum(<<Variant("Newtype", "newtype", sv.ty)>>), VVariant("Newtype", sv.v)) :
        sv \in ScalarValues}

\* A tuple variant and a struct variant at the document root, their two
\* elements or fields being scalars of one kind.
RootVariantValues ==
    {TV(TEnum(<<Variant("Tuple", "tuple", TTuple(<<sv.ty, sv.ty>>))>>),
        VVariant("Tuple", VSeq(<<sv.v, sv.v>>))) : sv \in ScalarValues}
    \cup {TV(TEnum(<<Variant("Struct", "struct", TStruct(<<Field("a", sv.ty), Field("b", sv.ty)>>))>>),
             VVariant("Struct", VStruct(<<<<"a", sv.v>>, <<"b", sv.v>>>>))) : sv \in ScalarValues}

Values ==
    {TV(TInt(w), VInt(n)) : w \in {"u32", "u64", "i32"}, n \in {1, 27}}
    \cup {TV(TString, VStr(t)) : t \in {"a", "foo"}}
    \cup {TV(TBool, VBool(TRUE)), TV(TOption(TString), VNone), TV(TOption(TString), VSome(VStr("a"))),
          TV(TTuple(<<TString, TInt("i32")>>), VSeq(<<VStr("a"), VInt(1)>>)),
          TV(TNewtypeStruct(TInt("u32")), VInt(1)), TV(TUnit, VUnit)}
    \cup {TV(TVec(TInt("u32")), VSeq(xs)) : xs \in SeqsOf({VInt(1), VInt(2)}, MaxSeq)}
    \cup {TV(TVec(TString), VSeq(xs)) : xs \in SeqsOf({VStr("a"), VStr("b")}, MaxSeq)}
    \cup {TV(TVec(TVec(TInt("u32"))), VSeq(xs)) :
            xs \in SeqsOf({VSeq(<<>>), VSeq(<<VInt(1)>>), VSeq(<<VInt(1), VInt(2)>>)}, MaxSeq)}
    \cup {TV(MixedEnum, v) : v \in MixedValues}
    \cup {TV(TVec(MixedEnum), VSeq(xs)) : xs \in SeqsOf(MixedValues, MaxSeq)}
    \cup {TV(TestEnum, VVariant("ValueA", VUnit))}
    \cup {TV(TestStruct, VStruct(<<<<"int", VInt(1)>>, <<"seq", VSeq(xs)>>>>)) :
            xs \in SeqsOf({VStr("a"), VStr("b")}, MaxSeq)}
    \cup {TV(PointU32, VStruct(<<<<"x", VInt(a)>>, <<"y", VInt(b)>>>>)) : a \in {1, 10}, b \in {2, 45}}
    \cup {TV(TVec(PointU32), VSeq(xs)) :
            xs \in SeqsOf({VStruct(<<<<"x", VInt(1)>>, <<"y", VInt(b)>>>>) : b \in {2, 45}}, MaxSeq)}
    \cup {TV(Address, v) : v \in AddressValues}
    \cup {TV(TVec(Address), VSeq(xs)) : xs \in SeqsOf(AddressValues, MaxSeq)}
    \cup ScalarFieldValues \cup ScalarNewtypeValues \cup RootVariantValues
    \cup {TV(TInt(w), VInt(1)) : w \in {"i8", "i16", "i64", "u8", "u16"}}
    \cup {TV(NestedAddress, VStruct(<<<<"address", v>>>>)) : v \in AddressValues}
    \cup {TV(TMap, VMap(<<<<VStr("foo"), VStr("bar")>>>>))}

(***************************************************************************)
(* The runs: from_str on a text, or to_string on a value followed by       *)
(* from_str on the text it returned.                                       *)
(***************************************************************************)
NewDeserializer == [pos |-> 0, log |-> <<>>]
Running == [st |-> "running", v |-> NoValue, e |-> NoError]
Aborted(why) == [st |-> "panic", v |-> NoValue, e |-> [kind |-> "panic", why |-> why]]

InitFromStr ==
    /\ mode = "from_str"
    /\ pc = "start_stream"
    /\ target \in Types
    /\ \/ \E docs \in Inputs : stream = StreamOf(docs)
       \/ stream \in BrokenStreams
    /\ value = TV(TUnit, VUnit)
    /\ work = <<>>

InitRoundTrip ==
    /\ mode = "round_trip"
    /\ pc = "serialize"
    /\ value \in Values
    /\ target = value.ty
    /\ stream = <<>>
    /\ work = <<WSerialize(value.ty, value.v)>>

Init ==
    /\ InitFromStr \/ InitRoundTrip
    /\ de = NewDeserializer
    /\ result = Running
    /\ output = <<>>
    /\ indent = 0

(***************************************************************************)
(* to_string: value.serialize(&mut serializer), then end_file.             *)
(***************************************************************************)
DecoderUnchanged == UNCHANGED <<mode, stream, target, de, value>>

Elements(ty, v) ==
    [i \in DOMAIN v.xs |-> WElement(IF ty.k = "tuple" THEN ty.ts[i] ELSE ty.of, v.xs[i])]
Fields(ty, v) ==
    [i \in DOMAIN v.fs |-> WField(v.fs[i][1], ty.fields[i].ty, v.fs[i][2])]

\* impl ser::Serializer: the method the value's shape calls, up to its
\* first nested serialize; what follows it is pushed on `work`.
SerValue ==
    /\ pc = "serialize" /\ work # <<>> /\ Head(work).op = "serialize"
    /\ LET w == Head(work)
           m == SerializeMethod(w.ty, w.v)
           named == Push(Push(output, w.v.name), ":")
       IN CASE m \notin Implemented ->
                    /\ pc' = "aborted" /\ result' = Aborted("todo!()")
                    /\ UNCHANGED <<output, indent, work>>
            [] m = "serialize_u32" ->
                    /\ output' = Push(IF ends_with_colon(output) THEN Append(output, " ") ELSE output,
                                      NatToStr(w.v.n))
                    /\ work' = Tail(work)
                    /\ UNCHANGED <<pc, result, indent>>
            [] m = "serialize_u64" ->
                    /\ output' = Push(output, NatToStr(w.v.n))
                    /\ work' = Tail(work)
                    /\ UNCHANGED <<pc, result, indent>>
            [] m = "serialize_str" ->
                    /\ output' = Push(output, w.v.s)
                    /\ work' = Tail(work)
                    /\ UNCHANGED <<pc, result, indent>>
            [] m = "serialize_unit_variant" ->
                    /\ output' = Push(output, w.v.name)
                    /\ work' = Tail(work)
                    /\ UNCHANGED <<pc, result, indent>>
            [] m = "serialize_newtype_variant" ->
                    /\ output' = named
                    /\ indent' = indent + 1
                    /\ work' = <<WSerialize(VariantOf(w.ty, w.v).ty, w.v.payload), WOutdent>> \o Tail(work)
                    /\ UNCHANGED <<pc, result>>
            [] m = "serialize_tuple_variant" ->
                    /\ output' = named
                    /\ indent' = indent + 1
                    /\ work' = Elements(VariantOf(w.ty, w.v).ty, w.v.payload) \o VariantEnd \o Tail(work)
                    /\ UNCHANGED <<pc, result>>
            [] m = "serialize_struct_variant" ->
                    /\ output' = named
                    /\ indent' = indent + 1
                    /\ work' = Fields(VariantOf(w.ty, w.v).ty, w.v.payload) \o VariantEnd \o Tail(work)
                    /\ UNCHANGED <<pc, result>>
            [] m = "serialize_seq" ->
                    /\ work' = Elements(w.ty, w.v) \o Tail(work)
                    /\ UNCHANGED <<pc, result, output, indent>>
            [] m = "serialize_struct" ->
                    /\ work' = Fields(w.ty, w.v) \o Tail(work)
                    /\ UNCHANGED <<pc, result, output, indent>>
    /\ DecoderUnchanged

\* `" ".repeat(self.indent as usize * 2)` with a negative indent asks for
\* more memory than there is.
NewlineAborts == output # <<>> /\ indent < 0

\* SerializeSeq::serialize_element and SerializeTupleVariant::serialize_field
SerElement ==
    /\ pc = "serialize" /\ work # <<>> /\ Head(work).op = "serialize_element"
    /\ IF NewlineAborts
       THEN /\ pc' = "aborted" /\ result' = Aborted("capacity overflow")
            /\ UNCHANGED <<output, indent, work>>
       ELSE /\ output' = Append(newline_with_indent(output, indent), "- ")
            /\ indent' = indent + 1
            /\ work' = <<WSerialize(Head(work).ty, Head(work).v), WOutdent>> \o Tail(work)
            /\ UNCHANGED <<pc, result>>
    /\ DecoderUnchanged

\* SerializeStruct::serialize_field and SerializeStructVariant::serialize_field
SerField ==
    /\ pc = "serialize" /\ work # <<>> /\ Head(work).op = "serialize_field"
    /\ IF NewlineAborts
       THEN /\ pc' = "aborted" /\ result' = Aborted("capacity overflow")
            /\ UNCHANGED <<output, indent, work>>
       ELSE /\ output' = Append(Push(newline_with_indent(output, indent), Head(work).key), ":")
            /\ indent' = indent + 1
            /\ work' = <<WSerialize(Head(work).ty, Head(work).v), WOutdent>> \o Tail(work)
            /\ UNCHANGED <<pc, result>>
    /\ DecoderUnchanged

\* decrease_indent, as the last statement of serialize_newtype_variant,
\* serialize_element and serialize_field, and as the variants' end().
SerOutdent ==
    /\ pc = "serialize" /\ work # <<>> /\ Head(work).op = "decrease_indent"
    /\ indent' = indent - 1
    /\ work' = Tail(work)
    /\ UNCHANGED <<pc, result, output>>
    /\ DecoderUnchanged

\* to_string's serializer.end_file() and Ok(serializer.output)
ToStringEndFile ==
    /\ pc = "serialize" /\ work = <<>>
    /\ output' = end_file(output)
    /\ pc' = "to_string_returned"
    /\ UNCHANGED <<result, indent, work>>
    /\ DecoderUnchanged

(***************************************************************************)
(* from_str, one action per statement.                                     *)
(***************************************************************************)
\* YamlDeserializer::from_str(s) on the text to_string returned.
FromStrNew ==
    /\ pc = "to_string_returned"
    /\ stream' = ParseYaml(output)
    /\ pc' = "start_stream"
    /\ UNCHANGED <<mode, target, de, result, value, output, indent, work>>

\* One statement of from_str ending in `?`: on Ok go on (t is the value
\* from_str holds from then on), on Err return the error.
Statement(r, next, t) ==
    /\ de' = r.de
    /\ IF r.st = "ok"
       THEN /\ pc' = next
            /\ result' = [result EXCEPT !.v = t]
       ELSE /\ pc' = IF r.st = "panic" THEN "aborted" ELSE "returned"
            /\ result' = [st |-> r.st, v |-> NoValue, e |-> r.e]
    /\ UNCHANGED <<mode, stream, target, value, output, indent, work>>

FromStrStartStream ==
    pc = "start_stream" /\ Statement(start_stream(de), "start_document", result.v)
FromStrStartDocument ==
    pc = "start_document" /\ Statement(start_document(de), "deserialize", result.v)
FromStrDeserialize ==
    pc = "deserialize" /\ LET r == Deserialize(target, de) IN Statement(r, "end_document", r.v)
FromStrEndDocument ==
    pc = "end_document" /\ Statement(end_document(de), "end_stream", result.v)
FromStrEndStream ==
    pc = "end_stream" /\ Statement(end_stream(de), "ok", result.v)
FromStrReturnOk ==
    /\ pc = "ok"
    /\ pc' = "returned"
    /\ result' = [result EXCEPT !.st = "ok"]
    /\ UNCHANGED <<mode, stream, target, de, value, output, indent, work>>

Next ==
    \/ SerValue
    \/ SerElement
    \/ SerField
    \/ SerOutdent
    \/ ToStringEndFile
    \/ FromStrNew
    \/ FromStrStartStream
    \/ FromStrStartDocument
    \/ FromStrDeserialize
    \/ FromStrEndDocument
    \/ FromStrEndStream
    \/ FromStrReturnOk

Spec == Init /\ [][Next]_vars

(***************************************************************************)
(* Properties.  A call is an entry of de.log; Upcoming(e) is the event     *)
(* that was next in the stream when the call e began.                      *)
(***************************************************************************)
Finished == pc \in {"returned", "aborted"}
Upcoming(e) == IF e.from < Len(stream) THEN stream[e.from + 1] ELSE Ev("none")
Calls(ops) == {i \in DOMAIN de.log : de.log[i].op \in ops}
ReturnedOk(v) == result.st = "ok" /\ result.v = v

\* The record a mapping of scalar values is meant to decode to when every
\* field is a string: each field holds the text written under its key.
RecordOf(doc) ==
    VStruct([i \in DOMAIN doc.entries |-> <<doc.entries[i][1].text, VStr(doc.entries[i][2].text)>>])
OneDocument(doc) == mode = "from_str" /\ stream = StreamOf(<<doc>>)

\* C1: round trip.  Whenever to_string returned a text for v and from_str
\* has finished on that text, from_str returned Ok(v).
C1_RoundTrip ==
    (mode = "round_trip" /\ stream # <<>> /\ Finished) => ReturnedOk(value.v)

\* C2: a block sequence of N >= 1 mappings decoded into Vec<Address>
\* returns Ok with exactly the N records, in input order.
C2_SequenceOfStructs ==
    \A items \in SeqsOf(FullAddressDocs, MaxSeq) \ {<<>>} :
        (OneDocument(DSeq(items)) /\ target = TVec(Address) /\ Finished)
            => ReturnedOk(VSeq([i \in DOMAIN items |-> RecordOf(items[i])]))

\* C3: a block mapping whose keys are exactly the struct's fields decodes
\* to Ok with each field holding the value under its key, also when a
\* field's value is a nested mapping decoded into a nested struct.
C3_StructFromMapping ==
    \A doc \in FullAddressDocs :
        /\ (OneDocument(doc) /\ target = Address /\ Finished) => ReturnedOk(RecordOf(doc))
        /\ (OneDocument(DMap(<<<<DScalar("address"), doc>>>>)) /\ target = NestedAddress /\ Finished)
                => ReturnedOk(VStruct(<<<<"address", RecordOf(doc)>>>>))

\* C4: deserialize_bool on a scalar returns true for exactly the texts
\* y Y yes Yes YES true True TRUE on On ON and the empty text, false for
\* exactly n N no No NO false False FALSE off Off OFF, and for every other
\* text fails with BoolParseError carrying that text and its span.
C4_BooleanLiterals ==
    \A i \in Calls({"deserialize_bool"}) :
        Upcoming(de.log[i]).k = "Scalar" =>
            /\ de.log[i].to = de.log[i].from + 1
            /\ IF Upcoming(de.log[i]).text \in
                    {"y", "Y", "yes", "Yes", "YES", "true", "True", "TRUE", "on", "On", "ON", ""}
               THEN de.log[i].st = "ok" /\ de.log[i].v = VBool(TRUE)
               ELSE IF Upcoming(de.log[i]).text \in
                    {"n", "N", "no", "No", "NO", "false", "False", "FALSE", "off", "Off", "OFF"}
               THEN de.log[i].st = "ok" /\ de.log[i].v = VBool(FALSE)
               ELSE /\ de.log[i].st = "err"
                    /\ de.log[i].e = [kind |-> "BoolParseError", text |-> Upcoming(de.log[i]).text,
                                      span |-> de.log[i].from + 1]

\* C4's case: a scalar in neither set (tRUE) was given to deserialize_bool,
\* and so was the empty text.
C4_Witness_RejectedCasing ==
    \E i \in Calls({"deserialize_bool"}) :
        /\ Upcoming(de.log[i]) \in {Scalar("tRUE"), Scalar("")}
        /\ target \in {TBool, TestBool}
        /\ Finished

\* C5: deserialize_option, when the next event is a scalar of the null
\* family (null, Null, NULL, ~; a blank node is reported by the parser as
\* the scalar ~), takes that one event and signals none; in every other
\* case it takes no event itself: the inner type is decoded from the same
\* position and its outcome is the option's, wrapped in some.
C5_OptionNull ==
    \A i \in Calls({"deserialize_option"}) :
        IF Upcoming(de.log[i]).k = "Scalar" /\ Upcoming(de.log[i]).text \in {"null", "Null", "NULL", "~"}
        THEN /\ de.log[i].st = "ok"
             /\ de.log[i].v = VNone
             /\ de.log[i].to = de.log[i].from + 1
        ELSE /\ i > 1
             /\ de.log[i - 1].from = de.log[i].from
             /\ de.log[i - 1].to = de.log[i].to
             /\ de.log[i - 1].st = de.log[i].st
             /\ de.log[i - 1].e = de.log[i].e
             /\ de.log[i].st = "ok" => de.log[i].v = VSome(de.log[i - 1].v)

\* C5's case: `opt:` with nothing after the colon was decoded as none.
C5_Witness_BlankIsNone ==
    /\ target = TestOption
    /\ stream = StreamOf(<<DMap(<<<<DScalar("opt"), DEmpty>>>>)>>)
    /\ \E i \in Calls({"deserialize_option"}) : de.log[i].v = VNone /\ de.log[i].to = de.log[i].from + 1

\* C6: deserialize_unit and deserialize_unit_struct return Ok, having taken
\* exactly one scalar, when the next event is a scalar of the null family
\* (an empty document root is the scalar ~); otherwise they fail with
\* TypeError and take no event.
C6_UnitNeedsNull ==
    \A i \in Calls({"deserialize_unit", "deserialize_unit_struct"}) :
        IF Upcoming(de.log[i]).k = "Scalar" /\ Upcoming(de.log[i]).text \in {"null", "Null", "NULL", "~"}
        THEN /\ de.log[i].st = "ok"
             /\ de.log[i].v = VUnit
             /\ de.log[i].to = de.log[i].from + 1
        ELSE /\ de.log[i].st = "err"
             /\ de.log[i].e = [kind |-> "TypeError"]
             /\ de.log[i].to = de.log[i].from

\* C6's case: a unit struct was asked of a scalar that is no null literal
\* and the call failed.
C6_Witness_TypeError ==
    /\ target = TUnitStruct
    /\ stream = StreamOf(<<DScalar("foo")>>)
    /\ \E i \in Calls({"deserialize_unit_struct"}) : de.log[i].st = "err"

\* C7: from_str asserts stream-start, asserts document-start, makes one
\* dispatch call, asserts document-end and asserts stream-end, in this
\* order and each at most once; when the text holds a second document the
\* call returns no value, and fails with UnexpectedElement if the dispatch
\* returned Ok.
C7_FromStrOrder ==
    /\ \A op \in {"start_stream", "start_document", "end_document", "end_stream"} :
            Cardinality(Calls({op})) <= 1
    /\ Len(de.log) >= 1 => de.log[1].op = "start_stream"
    /\ Len(de.log) >= 2 => de.log[1].st = "ok" /\ de.log[2].op = "start_document"
    /\ \A i \in Calls({"end_document"}) :
            /\ i > 3
            /\ de.log[2].st = "ok"
            /\ de.log[i - 1].from = de.log[2].to
            /\ de.log[i - 1].st = "ok"
            /\ de.log[i].from = de.log[i - 1].to
    /\ \A i \in Calls({"end_stream"}) :
            i = Len(de.log) /\ de.log[i - 1].op = "end_document" /\ de.log[i - 1].st = "ok"
    /\ (Finished /\ Cardinality({i \in DOMAIN stream : stream[i] = DocumentStart}) > 1) =>
            /\ result.st # "ok"
            /\ Calls({"end_document"}) # {} => result.st = "err" /\ result.e.kind = "UnexpectedElement"

\* C8: a mapping whose single key is a struct variant's tag and whose value
\* is the mapping of its fields decodes to that variant with those fields;
\* deserialize_enum takes exactly the events from the outer mapping-start
\* through the outer mapping-end; several such mappings in a sequence
\* decode in order.
TaggedRecords ==
    {doc \in TaggedDocs :
        doc.entries[1][2].entries[2][1].text =
            (IF doc.entries[1][1].text = "ValueA" THEN "method" ELSE "result")
        /\ doc.entries[1][1].text # "ValueC"}
VariantOfDoc(doc) == VVariant(doc.entries[1][1].text, RecordOf(doc.entries[1][2]))
StartsWith(e, doc) ==
    /\ e.from + Len(NodeEvents(doc)) <= Len(stream)
    /\ SubSeq(stream, e.from + 1, e.from + Len(NodeEvents(doc))) = NodeEvents(doc)
C8_StructVariant ==
    /\ \A doc \in TaggedRecords :
        /\ (OneDocument(doc) /\ target = TestExternallyTaggedEnum /\ Finished)
                => ReturnedOk(VariantOfDoc(doc))
        /\ target \in {TestExternallyTaggedEnum, TVec(TestExternallyTaggedEnum)} =>
                \A i \in Calls({"deserialize_enum"}) :
                    StartsWith(de.log[i], doc) =>
                        /\ de.log[i].st = "ok"
                        /\ de.log[i].v = VariantOfDoc(doc)
                        /\ de.log[i].to = de.log[i].from + Len(NodeEvents(doc))
    /\ \A items \in SeqsOf(TaggedRecords, MaxSeq) \ {<<>>} :
        (OneDocument(DSeq(items)) /\ target = TVec(TestExternallyTaggedEnum) /\ Finished)
            => ReturnedOk(VSeq([i \in DOMAIN items |-> VariantOfDoc(items[i])]))

\* C9: deserialize_enum on a bare scalar takes exactly that one event and
\* reads no payload; when it returns Ok the variant is the one the scalar's
\* text names, without payload.
C9_UnitVariantFromScalar ==
    \A i \in Calls({"deserialize_enum"}) :
        Upcoming(de.log[i]).k = "Scalar" =>
            /\ de.log[i].to = de.log[i].from + 1
            /\ de.log[i].st # "panic"
            /\ de.log[i].st = "ok" => de.log[i].v = VVariant(Upcoming(de.log[i]).text, VUnit)
            /\ \A j \in Calls({"unit_variant", "newtype_variant_seed", "tuple_variant",
                               "struct_variant", "variant_seed"}) :
                    j > i \/ de.log[j].from < de.log[i].from

\* C9's case: the bare scalar ValueA was decoded as the unit variant ValueA.
C9_Witness_BareScalar ==
    /\ target = TestEnum
    /\ stream = StreamOf(<<DScalar("ValueA")>>)
    /\ pc = "returned"
    /\ ReturnedOk(VVariant("ValueA", VUnit))

\* C10: inside an externally tagged mapping no payload read aborts the
\* program, whichever kind the visitor asks for (unit, newtype, tuple,
\* struct); the tag T followed by the block sequence 27, 32 decodes to
\* T(27, 32).
C10_PayloadKindsDecode ==
    /\ \A i \in Calls({"unit_variant", "newtype_variant_seed", "tuple_variant", "struct_variant"}) :
            de.log[i].st # "panic"
    /\ (OneDocument(DMap(<<<<DScalar("T"), DSeq(<<DScalar("27"), DScalar("32")>>)>>>>))
            /\ target = TupleVariant /\ Finished)
         => ReturnedOk(VVariant("T", VSeq(<<VInt(27), VInt(32)>>)))

\* The decoder methods of the integer targets the runs use.
IntegerCalls == {"deserialize_" \o w : w \in {"i8", "i16", "i32", "i64", "u8", "u16", "u32", "u64"}}
WidthOf(op) == CHOOSE w \in {"i8", "i16", "i32", "i64", "u8", "u16", "u32", "u64"} : op = "deserialize_" \o w

\* C11: a numeric decode given a scalar it cannot parse (non-numeric text,
\* or a number outside the target's range: 256 for u8, -5 for an unsigned
\* target) fails with NumberParseError whose text is the scalar's text and
\* whose type names the target width.
C11_NumberParseErrorNamesWidth ==
    \A i \in Calls(IntegerCalls) :
        Upcoming(de.log[i]).k = "Scalar" =>
            /\ (\/ Upcoming(de.log[i]).text \in {"ab", "foo", "True", "", "~"}
                \/ Upcoming(de.log[i]).text = "256" /\ de.log[i].op = "deserialize_u8"
                \/ Upcoming(de.log[i]).text = "-5" /\ de.log[i].op \in {"deserialize_u8", "deserialize_u32"})
                    => de.log[i].st = "err"
            /\ de.log[i].st = "err" =>
                    de.log[i].e = [kind |-> "NumberParseError", text |-> Upcoming(de.log[i]).text,
                                   span |-> de.log[i].from + 1, type_string |-> WidthOf(de.log[i].op)]

\* C12: a block sequence decoded into the tuple (String, i32) or the tuple
\* struct Point(i32, i32) returns Ok with the elements in input order when
\* it has exactly two well-typed elements, and fails when it has more than
\* two elements or when an element does not parse as its position's type.
TupleItems == SeqsOf({DScalar("abc"), DScalar("27")}, MaxSeq + 1)
TupleElement(ty, item) == IF ty.k = "int" THEN VInt(27) ELSE VStr(item.text)
WellTyped(ty, item) == ty.k = "int" => item.text = "27"
C12_TupleArity ==
    \A items \in TupleItems :
        (OneDocument(DSeq(items)) /\ target \in {StringAndInt, PointTupleStruct} /\ Finished) =>
            /\ (Len(items) = 2 /\ \A i \in 1..2 : WellTyped(target.ts[i], items[i]))
                    => ReturnedOk(VSeq([i \in 1..2 |-> TupleElement(target.ts[i], items[i])]))
            /\ Len(items) > 2 => result.st = "err"
            /\ (Len(items) >= 2 /\ \E i \in 1..2 : ~WellTyped(target.ts[i], items[i]))
                    => result.st = "err"

\* C12's case: a sequence of three elements was decoded into Point(i32, i32)
\* and the decode failed at the assertion of the sequence's end.
C12_Witness_TooManyElements ==
    /\ OneDocument(DSeq(<<DScalar("27"), DScalar("27"), DScalar("27")>>))
    /\ target = PointTupleStruct
    /\ Finished
    /\ result.st = "err"
    /\ \E i \in Calls({"deserialize_tuple_struct"}) : de.log[i].e.kind = "UnexpectedElement"

\* Mappings with scalar keys, and how they stand to a struct's declaration.
KeyedDocs == {doc \in MapDocs : doc.k = "map"}
Keys(doc) == {doc.entries[i][1].text : i \in DOMAIN doc.entries}
Declared(ty) == {ty.fields[i].name : i \in DOMAIN ty.fields}
Required(ty) == {ty.fields[i].name : i \in {j \in DOMAIN ty.fields : ty.fields[j].ty.k # "option"}}
\* Every declared key occurs once and its value is a scalar its field's
\* type accepts.
DeclaredWellTyped(ty, doc) ==
    \A i \in DOMAIN doc.entries :
        doc.entries[i][1].text \in Declared(ty) =>
            /\ \A j \in DOMAIN doc.entries : doc.entries[j][1] = doc.entries[i][1] => j = i
            /\ doc.entries[i][2].k = "scalar"
            /\ ty.fields[IndexOfName(ty.fields, doc.entries[i][1].text)].ty.k = "int"
                    => doc.entries[i][2].text \in {"10", "-5", "45", "1"}

\* C13: a mapping that lacks a field the struct requires fails with
\* SerdeError "missing field" naming a missing field, whatever undeclared
\* keys (with whatever values) the mapping also holds.
C13_MissingFieldNamed ==
    \A doc \in KeyedDocs :
        (OneDocument(doc) /\ target \in {Point, Address} /\ Finished
            /\ Required(target) \ Keys(doc) # {} /\ DeclaredWellTyped(target, doc)) =>
                /\ result.st = "err"
                /\ result.e.kind = "SerdeError"
                /\ result.e.what = "missing field"
                /\ result.e.name \in Required(target) \ Keys(doc)

\* The struct of the declared (string) fields of a mapping, in declaration
\* order.
DeclaredRecord(ty, doc) ==
    VStruct([i \in DOMAIN ty.fields |->
        <<ty.fields[i].name,
          VStr(doc.entries[CHOOSE j \in DOMAIN doc.entries :
                              doc.entries[j][1].text = ty.fields[i].name][2].text)>>])

\* The run decodes `doc` into Address: as the document itself, or as the
\* value of NestedAddress's field.
DecodedAsAddress(doc) ==
    \/ target = Address /\ OneDocument(doc)
    \/ target = NestedAddress /\ OneDocument(DMap(<<<<DScalar("address"), doc>>>>))

RECURSIVE DynamicOf(_)
DynamicOf(doc) ==
    CASE doc.k = "scalar" -> VStr(doc.text)
      [] doc.k = "empty" -> VStr("~")
      [] doc.k = "seq" -> VSeq([i \in DOMAIN doc.items |-> DynamicOf(doc.items[i])])
      [] doc.k = "map" ->
            VMap([i \in DOMAIN doc.entries |->
                    <<DynamicOf(doc.entries[i][1]), DynamicOf(doc.entries[i][2])>>])

\* The documents of C15: a scalar, a flat mapping, a nested mapping and a
\* sequence of mappings.
DynamicDocs ==
    {DScalar(t) : t \in ScalarTexts}
    \cup FullAddressDocs
    \cup {DMap(<<<<DScalar("address"), a>>>>) : a \in FullAddressDocs}
    \cup {DSeq(items) : items \in SeqsOf(FullAddressDocs, MaxSeq) \ {<<>>}}

\* C15: from_str into the dynamic value type returns Ok for a scalar, a
\* flat mapping, a nested mapping and a sequence of mappings, and the value
\* holds the document's tree with every scalar as a string.
C15_DynamicValueDecodes ==
    \A doc \in DynamicDocs :
        (target = TAny /\ OneDocument(doc) /\ Finished) => ReturnedOk(DynamicOf(doc))

\* The variant a message document names and the fields it carries.
MessageTag(doc) ==
    doc.entries[CHOOSE i \in DOMAIN doc.entries : doc.entries[i][1].text = "type"][2].text
MessageVariant(doc) ==
    VVariant(MessageTag(doc),
             VStruct([i \in 1..2 |->
                Let(Message.variants[IndexOfName(Message.variants, MessageTag(doc))].ty.fields[i].name,
                    LAMBDA name : <<name, FieldValue(ContentFields(
                        Message.variants[IndexOfName(Message.variants, MessageTag(doc))],
                        DynamicOf(doc).es), name)>>)]))
WellFormedMessage(doc) ==
    /\ IndexOfName(Message.variants, MessageTag(doc)) # 0
    /\ \A i \in 1..2 : \E j \in DOMAIN doc.entries :
            doc.entries[j][1].text =
                Message.variants[IndexOfName(Message.variants, MessageTag(doc))].ty.fields[i].name

\* C16: a mapping whose tag field names a known variant and that carries
\* the variant's fields decodes to that variant; a tag naming no variant is
\* rejected with the custom error naming the unknown variant; and the
\* decode goes through deserialize_any only, never through the decoder's
\* enum methods.
C16_InternallyTagged ==
    \A doc \in MessageDocs :
        (target = Message /\ OneDocument(doc) /\ Finished) =>
            /\ WellFormedMessage(doc) => ReturnedOk(MessageVariant(doc))
            /\ IndexOfName(Message.variants, MessageTag(doc)) = 0 =>
                    /\ result.st = "err"
                    /\ result.e = custom("unknown variant", MessageTag(doc))
            /\ Calls({"deserialize_enum", "variant_seed", "struct_variant"}) = {}

\* C17 as stated: a char decode that meets a scalar takes that one scalar
\* and yields its character when the text has exactly one; for any other
\* length it fails with the TypeError kind.
C17_CharTypeError ==
    \A i \in Calls({"deserialize_char"}) :
        Upcoming(de.log[i]).k = "Scalar" =>
            /\ de.log[i].to = de.log[i].from + 1
            /\ IF Len(Upcoming(de.log[i]).text) = 1
               THEN de.log[i].st = "ok" /\ de.log[i].v = VChar(Upcoming(de.log[i]).text)
               ELSE de.log[i].st = "err" /\ de.log[i].e = TypeError

\* C17 amended: a char decode that meets a scalar takes that one scalar and
\* yields its character when the text has exactly one; for any other length
\* it fails with the framework's custom error (SerdeError, "invalid
\* value") raised by the char visitor, the scalar being taken all the same.
C17_CharInvalidValue ==
    \A i \in Calls({"deserialize_char"}) :
        Upcoming(de.log[i]).k = "Scalar" =>
            /\ de.log[i].to = de.log[i].from + 1
            /\ IF Len(Upcoming(de.log[i]).text) = 1
               THEN de.log[i].st = "ok" /\ de.log[i].v = VChar(Upcoming(de.log[i]).text)
               ELSE /\ de.log[i].st = "err"
                    /\ de.log[i].e = custom("invalid value", Upcoming(de.log[i]).text)

\* C17's case: a char was asked of a scalar of two characters or more and
\* the decode failed.
C17_Witness_LongScalar ==
    \E i \in Calls({"deserialize_char"}) :
        /\ Upcoming(de.log[i]).k = "Scalar"
        /\ Len(Upcoming(de.log[i]).text) > 1
        /\ de.log[i].st = "err"

\* to_string has returned (or aborted) on the run's value.
Encoded == mode = "round_trip" /\ pc # "serialize"
Text == Concat(output)
\* to_string aborted: the run stopped before any text was handed to from_str.
EncodeAborted == pc = "aborted" /\ stream = <<>>

\* The canonical block sequence of a list of addresses: "- " and the first
\* field on one line, every further field on its own line under it.
RECURSIVE CanonicalAddresses(_)
CanonicalAddresses(xs) ==
    IF xs = <<>> THEN ""
    ELSE "- street: " \o Head(xs).fs[1][2].s \o "\n" \o "  state: " \o Head(xs).fs[2][2].s \o "\n"
         \o CanonicalAddresses(Tail(xs))

\* C18: encoding a non-empty list of addresses returns the canonical block
\* sequence, byte for byte, the records in list order.
C18_ListOfStructsCanonical ==
    (Encoded /\ value.ty = TVec(Address) /\ value.v.xs # <<>>) =>
        ~EncodeAborted /\ Text = CanonicalAddresses(value.v.xs)

\* The text of a scalar value.
ScalarText(v) ==
    CASE v.k = "str" -> v.s
      [] v.k = "int" -> NatToStr(v.n)
      [] v.k = "variant" -> v.name

\* C19: a scalar written as the value of a struct field or as the payload
\* of a newtype variant reads "name: value" on one line, the colon followed
\* by exactly one space, whatever the scalar's kind (string, u32, u64,
\* unit variant).
C19_ScalarAfterColon ==
    /\ (Encoded /\ value \in ScalarFieldValues) =>
            ~EncodeAborted /\ Text = "name: " \o ScalarText(value.v.fs[1][2]) \o "\n"
    /\ (Encoded /\ value \in ScalarNewtypeValues) =>
            ~EncodeAborted /\ Text = "Newtype: " \o ScalarText(value.v.payload) \o "\n"

\* The values of C20: a bool, an integer of every width, an option (none
\* and some), a nested struct, a tuple, a newtype struct and a string-keyed
\* map.
SupportedShapes ==
    {tv \in Values :
        \/ tv.ty.k \in {"bool", "int", "option", "tuple", "newtype_struct", "map"}
        \/ tv.ty = NestedAddress}

\* C20: to_string returns a text, and never aborts, for a value of any of
\* the supported shapes; option none is rendered "null" and a newtype
\* struct as its inner value.
C20_SupportedShapesEncode ==
    (Encoded /\ value \in SupportedShapes) =>
        /\ ~EncodeAborted
        /\ value.v = VNone => Text = "null\n"
        /\ value.ty.k = "newtype_struct" => Text = NatToStr(value.v.n) \o "\n"

\* The lines of a variant's payload, one per element or field, one level
\* (two spaces) under the variant's name.
RECURSIVE ElementLines(_)
ElementLines(xs) ==
    IF xs = <<>> THEN ""
    ELSE "  - " \o ScalarText(Head(xs)) \o "\n" \o ElementLines(Tail(xs))
RECURSIVE FieldLines(_)
FieldLines(fs) ==
    IF fs = <<>> THEN ""
    ELSE "  " \o Head(fs)[1] \o ": " \o ScalarText(Head(fs)[2]) \o "\n" \o FieldLines(Tail(fs))

\* The variants of C21: a unit, a tuple and a struct variant as the value
\* handed to to_string.
RootVariants ==
    RootVariantValues \cup {tv \in Values : tv.ty \in {MixedEnum, TestEnum}}

\* C21: at the document root a unit variant renders as its bare name, a
\* tuple variant as "Name:" and one line "  - elem" per element, a struct
\* variant as "Name:" and one line "  key: value" per field.
C21_VariantRendering ==
    (Encoded /\ value \in RootVariants) =>
        /\ ~EncodeAborted
        /\ VariantOf(value.ty, value.v).kind = "unit" => Text = value.v.name \o "\n"
        /\ VariantOf(value.ty, value.v).kind = "tuple" =>
                Text = value.v.name \o ":\n" \o ElementLines(value.v.payload.xs)
        /\ VariantOf(value.ty, value.v).kind = "struct" =>
                Text = value.v.name \o ":\n" \o FieldLines(value.v.payload.fs)

\* The decrease_indent calls still to come.
PendingOutdents == Cardinality({i \in DOMAIN work : work[i].op = "decrease_indent"})

\* One element of a list of MixedEnum values, as test_outdenting expects
\* it: the dash at column 0, a nested payload two levels in.
OutdentedElement(v) ==
    CASE v.name = "Unit" -> "- Unit\n"
      [] v.name = "Newtype" -> "- Newtype: " \o ScalarText(v.payload) \o "\n"
      [] v.name = "Tuple" ->
            "- Tuple:\n    - " \o ScalarText(v.payload.xs[1]) \o "\n    - "
                \o ScalarText(v.payload.xs[2]) \o "\n"
      [] v.name = "Struct" -> "- Struct:\n    a: " \o ScalarText(v.payload.fs[1][2]) \o "\n"
RECURSIVE OutdentedElements(_)
OutdentedElements(xs) ==
    IF xs = <<>> THEN "" ELSE OutdentedElement(Head(xs)) \o OutdentedElements(Tail(xs))

\* C22: indent balance.  While to_string runs, the indent counter equals
\* the number of decrease_indent calls still to come, so every completed
\* serialization leaves it where it found it; it is 0 when to_string
\* returns; and in a list of variants every element starts at column 0,
\* whatever was nested in the element before it.
C22_IndentBalance ==
    /\ (mode = "round_trip" /\ pc = "serialize") => indent = PendingOutdents
    /\ (Encoded /\ ~EncodeAborted) => indent = 0
    /\ (Encoded /\ value.ty = TVec(MixedEnum) /\ value.v.xs # <<>>) =>
            Text = OutdentedElements(value.v.xs)

\* C22's case: a list whose first element is a tuple variant and that has
\* an element after it was written out.
C22_Witness_SiblingAfterNested ==
    /\ Encoded /\ ~EncodeAborted
    /\ value.ty = TVec(MixedEnum)
    /\ Len(value.v.xs) = 2
    /\ value.v.xs[1].name = "Tuple"

\* C23: in every state of a to_string call the indent counter is at least
\* 0, and decrease_indent is never about to run with the counter at 0.
C23_IndentNonNegative ==
    mode = "round_trip" =>
        /\ indent >= 0
        /\ (pc = "serialize" /\ work # <<>> /\ Head(work).op = "decrease_indent") => indent > 0

\* C23's case: decrease_indent is about to take the counter from 1 to 0
\* at the end of a struct variant.
C23_Witness_BackToZero ==
    /\ mode = "round_trip" /\ pc = "serialize"
    /\ value.v.k = "variant" /\ value.v.payload.k = "struct"
    /\ work = <<WOutdent>>
    /\ indent = 1

\* C24: the text to_string returns is never empty and ends with exactly
\* one newline, written last, after the rendered value.
C24_TrailingNewline ==
    (Encoded /\ ~EncodeAborted) =>
        /\ output # <<>>
        /\ output[Len(output)] = "\n"
        /\ Len(output) > 1 => output[Len(output) - 1] # "\n"
        /\ Len(Text) >= 1

\* C24's case: to_string returned on a value that renders as nothing (an
\* empty list); the text is the newline alone.
C24_Witness_EmptyRendering ==
    /\ Encoded /\ ~EncodeAborted
    /\ value.v = VSeq(<<>>)
    /\ output = <<"\n">>

\* The index in the stream of the end marker matching the collection that
\* starts at index p (0 when the stream ends before it).
RECURSIVE MatchingEndFrom(_, _)
MatchingEndFrom(q, depth) ==
    IF q > Len(stream) THEN 0
    ELSE IF stream[q].k \in {"MappingStart", "SequenceStart"} THEN MatchingEndFrom(q + 1, depth + 1)
    ELSE IF stream[q].k \in {"MappingEnd", "SequenceEnd"}
         THEN IF depth = 0 THEN q ELSE MatchingEndFrom(q + 1, depth - 1)
    ELSE MatchingEndFrom(q + 1, depth)
MatchingEnd(p) == MatchingEndFrom(p + 1, 0)

\* The call recorded in e was made with a collection next.
OnCollection(e) == Upcoming(e).k \in {"MappingStart", "SequenceStart"}

\* C25: force drain.  Whenever deserialize_any or deserialize_ignored_any
\* returns Ok for a mapping or a sequence, the cursor is exactly behind
\* that collection's matching end marker.
C25_ForceDrain ==
    \A i \in Calls({"deserialize_any", "deserialize_ignored_any"}) :
        (OnCollection(de.log[i]) /\ de.log[i].st = "ok") =>
            de.log[i].to = MatchingEnd(de.log[i].from + 1)

\* C26: whatever the event stream (complete, cut short, or ending in a
\* scan error), every decoder and accessor call returns a value or a
\* DeserializeError; none aborts the program.
C26_NoAbort ==
    mode = "from_str" =>
        /\ pc # "aborted"
        /\ \A i \in DOMAIN de.log : de.log[i].st \in {"ok", "err"}

ShapeCalls ==
    {"deserialize_seq", "deserialize_map", "deserialize_struct", "deserialize_enum", "deserialize_any"}

\* C27: cursor boundary and single ownership of end markers.  Every
\* shape-dispatch call that returns Ok has consumed exactly the events of
\* its node, from the first through the matching end marker (the one event
\* of a scalar), and no end marker already taken by an accessor is asserted
\* again by the dispatch call.
C27_CursorBoundary ==
    /\ \A i \in Calls(ShapeCalls) :
            de.log[i].st = "ok" =>
                de.log[i].to = IF OnCollection(de.log[i]) THEN MatchingEnd(de.log[i].from + 1)
                               ELSE de.log[i].from + 1
    /\ \A i \in Calls({"end_map", "end_sequence"}) :
            i > 1 => ~(/\ de.log[i - 1].op \in {"next_key_seed", "next_element_seed"}
                       /\ de.log[i - 1].st = "ok"
                       /\ de.log[i - 1].v = ItemNone)

\* The end marker an accessor method looks for.
OwnEnd(op) == IF op = "next_element_seed" THEN "SequenceEnd" ELSE "MappingEnd"

\* The dispatch call that created the accessor whose step is recorded at i:
\* the first one to return after it.
Owner(i) ==
    CHOOSE k \in (i + 1)..Len(de.log) :
        /\ de.log[k].op \in {"deserialize_seq", "deserialize_map", "deserialize_any", "deserialize_enum"}
        /\ \A j \in (i + 1)..(k - 1) :
                de.log[j].op \notin {"deserialize_seq", "deserialize_map", "deserialize_any", "deserialize_enum"}

\* One accessor step, as the code takes it: with its kind of end marker
\* next it takes exactly that event and answers None, making no decoder
\* call; with anything else next it answers through one decode of the
\* element (key) that starts at the same event, covers everything the step
\* consumed and gives the step its outcome.
StepAsWritten(i) ==
    IF Upcoming(de.log[i]).k = OwnEnd(de.log[i].op)
    THEN /\ de.log[i].st = "ok" /\ de.log[i].v = ItemNone
         /\ de.log[i].to = de.log[i].from + 1
         /\ (i > 1 => de.log[i - 1].to <= de.log[i].from)
    ELSE /\ de.log[i].v # ItemNone
         /\ i > 1
         /\ de.log[i - 1].op \notin {"next_element_seed", "next_key_seed", "next_value_seed"}
         /\ de.log[i - 1].from = de.log[i].from
         /\ de.log[i - 1].to = de.log[i].to
         /\ de.log[i - 1].st = de.log[i].st
         /\ de.log[i].st = "ok" => de.log[i].v = ItemSome(de.log[i - 1].v)

\* C28: every accessor step that has an event to look at is taken as
\* written above, and the end marker a step takes as the end of its
\* iteration is the one matching the start of its own collection, never
\* another collection's.
C28_AccessorStep ==
    \A i \in Calls({"next_element_seed", "next_key_seed"}) :
        Upcoming(de.log[i]).k \notin {"none", "ScanError"} =>
            /\ StepAsWritten(i)
            /\ (de.log[i].st = "ok" /\ de.log[i].v = ItemNone) =>
                    de.log[i].from + 1 = MatchingEnd(de.log[Owner(i)].from + 1)

\* The structural assertions and the kind of event each one expects.
Assertions ==
    {"start_stream", "end_stream", "start_document", "end_document",
     "start_sequence", "end_sequence", "start_map", "end_map"}
ExpectedKind(op) ==
    CASE op = "start_stream" -> "StreamStart"
      [] op = "end_stream" -> "StreamEnd"
      [] op = "start_document" -> "DocumentStart"
      [] op = "end_document" -> "DocumentEnd"
      [] op = "start_sequence" -> "SequenceStart"
      [] op = "end_sequence" -> "SequenceEnd"
      [] op = "start_map" -> "MappingStart"
      [] op = "end_map" -> "MappingEnd"

\* C29: a structural assertion takes exactly one event whether it succeeds
\* or fails; it returns Ok iff the event is of the expected kind, and
\* otherwise UnexpectedElement with that event, its span and the name of
\* the asserting call; with no event left it returns EarlyTermination.
C29_StructuralAssertions ==
    \A i \in Calls(Assertions) :
        CASE Upcoming(de.log[i]).k = "none" ->
                /\ de.log[i].st = "err" /\ de.log[i].e = EarlyTermination
                /\ de.log[i].to = de.log[i].from
          [] Upcoming(de.log[i]).k = "ScanError" ->
                de.log[i].st = "err" /\ de.log[i].e = ScanError
          [] OTHER ->
                /\ de.log[i].to = de.log[i].from + 1
                /\ de.log[i].st = "ok" <=> Upcoming(de.log[i]).k = ExpectedKind(de.log[i].op)
                /\ de.log[i].st # "ok" =>
                        /\ de.log[i].st = "err"
                        /\ de.log[i].e = unexpected(Upcoming(de.log[i]), de.log[i].from + 1,
                                                    de.log[i].op)

\* C29's case: end_map met an event that is not a mapping-end, took it and
\* failed.
C29_Witness_FailedAssertionConsumes ==
    \E i \in Calls({"end_map"}) :
        /\ Upcoming(de.log[i]).k = "DocumentEnd"
        /\ de.log[i].st = "err"
        /\ de.log[i].to = de.log[i].from + 1

\* A cursor at position p of the run's stream.
CursorAt(p) == [de EXCEPT !.pos = p]

\* C30: at every position of the stream next_event returns the event at
\* that position and moves the cursor one event on, so that the next call
\* returns the following event and none is returned twice; with no event
\* left it returns EarlyTermination, and where the lexical layer fails it
\* returns ScanError.  In the run itself the cursor never moves back.
C30_NextEvent ==
    /\ \A p \in 0..Len(stream) :
            CASE p = Len(stream) ->
                    next_event(CursorAt(p)) = Err(EarlyTermination, CursorAt(p))
              [] stream[p + 1].k = "ScanError" ->
                    /\ next_event(CursorAt(p)).st = "err"
                    /\ next_event(CursorAt(p)).e = ScanError
              [] OTHER ->
                    /\ next_event(CursorAt(p)).st = "ok"
                    /\ next_event(CursorAt(p)).v.event = stream[p + 1]
                    /\ next_event(CursorAt(p)).v.span = p + 1
                    /\ next_event(CursorAt(p)).de = CursorAt(p + 1)
    /\ \A i \in DOMAIN de.log :
            /\ de.log[i].from <= de.log[i].to
            /\ de.log[i].to <= de.pos
            /\ i > 1 => de.log[i - 1].to <= de.log[i].to

\* C30's case: the run read the stream to its end and a further read
\* returned EarlyTermination.
C30_Witness_Exhausted ==
    /\ mode = "from_str"
    /\ de.pos = Len(stream)
    /\ \E i \in Calls({"consume_map"}) : de.log[i].st = "err" /\ de.log[i].e = EarlyTermination
    /\ result.e = EarlyTermination

\* The methods that look at the next event before deciding what to do.
PeekSites == {"deserialize_option", "deserialize_unit", "next_element_seed", "next_key_seed"}

\* C31: peeking neither moves the cursor nor reports a lexical error.
\* peek_event and peek_scalar_string answer none at a malformed token; a
\* method that peeks at one goes on as for no match (deserialize_unit
\* fails with TypeError without taking anything), and the lexical error is
\* returned as ScanError only by the read that consumes the token; no peek
\* site aborts on it.
C31_PeekDefersScanError ==
    /\ \A p \in 0..(Len(stream) - 1) :
            stream[p + 1].k = "ScanError" =>
                ~peek_event(CursorAt(p)).some /\ ~peek_scalar_string(CursorAt(p)).some
    /\ \A i \in Calls(PeekSites) :
            Upcoming(de.log[i]).k = "ScanError" =>
                /\ de.log[i].st = "err"
                /\ IF de.log[i].op = "deserialize_unit"
                   THEN de.log[i].e = TypeError /\ de.log[i].to = de.log[i].from
                   ELSE de.log[i].e \in {ScanError, TypeError}

\* The end marker of the collection that encloses cursor position p (0 if
\* none), and whether that collection is a mapping holding a nested
\* mapping that is still unread at p.
EnclosingEnd(p) == MatchingEndFrom(p + 1, 0)
InsideMappingWithNested(p) ==
    /\ EnclosingEnd(p) # 0
    /\ stream[EnclosingEnd(p)].k = "MappingEnd"
    /\ \E q \in (p + 1)..(EnclosingEnd(p) - 1) : stream[q].k = "MappingStart"

\* C32: consume_map returns Ok right behind a mapping-end, or fails with
\* EarlyTermination or ScanError when the stream ends or errs first; called
\* inside a mapping that still holds an unread nested mapping it stops
\* behind the end marker of the mapping being drained, not behind the
\* nested one's.
C32_ConsumeMap ==
    \A i \in Calls({"consume_map"}) :
        /\ de.log[i].st \in {"ok", "err"}
        /\ de.log[i].st = "err" => de.log[i].e \in {EarlyTermination, ScanError}
        /\ de.log[i].st = "ok" =>
                /\ de.log[i].to > de.log[i].from
                /\ stream[de.log[i].to].k = "MappingEnd"
                /\ InsideMappingWithNested(de.log[i].from) =>
                        de.log[i].to = EnclosingEnd(de.log[i].from)

\* C33: first-failure propagation.  Once a call inside the decoder has
\* returned an error, every call that returns after it returns that same
\* error with the cursor where the failure left it (nothing more is
\* consumed, no other error takes its place), and from_str returns it.
C33_FirstFailure ==
    \A k \in DOMAIN de.log :
        de.log[k].st = "err" =>
            /\ \A i \in (k + 1)..Len(de.log) :
                    /\ de.log[i].st = "err"
                    /\ de.log[i].e = de.log[k].e
                    /\ de.log[i].to = de.log[k].to
            /\ Finished => result.st = "err" /\ result.e = de.log[k].e


\* Sequences whose elements all suit the tuple's positions, so that only
\* their number can be wrong.
ArityDocs(ty) ==
    {items \in TupleItems :
        \A i \in DOMAIN items : i <= Len(ty.ts) => WellTyped(ty.ts[i], items[i])}

\* C34 as stated: a block sequence with fewer or more elements than the
\* tuple's arity fails with the framework's custom error (SerdeError),
\* never with one of the decoder's own kinds.
C34_ArityErrorIsSerdeError ==
    \A items \in TupleItems :
        (/\ OneDocument(DSeq(items))
         /\ target \in {StringAndInt, PointTupleStruct}
         /\ items \in ArityDocs(target)
         /\ Len(items) # Len(target.ts)
         /\ Finished)
            => result.st = "err" /\ result.e.kind = "SerdeError"

\* C34 as the code has it: too few elements fail in the visitor with the
\* framework's "invalid length" error naming the number of elements read;
\* too many fail at the end-of-sequence assertion with the decoder's
\* UnexpectedElement carrying the first surplus element.
C34_ArityErrorKinds ==
    \A items \in TupleItems :
        (/\ OneDocument(DSeq(items))
         /\ target \in {StringAndInt, PointTupleStruct}
         /\ items \in ArityDocs(target)
         /\ Finished)
            => /\ Len(items) < Len(target.ts) =>
                    /\ result.st = "err"
                    /\ result.e = custom("invalid length", IntToStr(Len(items)))
               /\ Len(items) > Len(target.ts) =>
                    /\ result.st = "err"
                    /\ result.e = unexpected(Scalar(items[Len(target.ts) + 1].text),
                                             Len(target.ts) + 4, "end_sequence")

\* C34's cases: a one-element sequence and a three-element sequence were
\* each decoded into a pair and the decode failed.
C34_Witness_TooFew ==
    /\ OneDocument(DSeq(<<DScalar("abc")>>))
    /\ target = StringAndInt
    /\ Finished
    /\ result.st = "err"
C34_Witness_TooMany ==
    /\ OneDocument(DSeq(<<DScalar("27"), DScalar("27"), DScalar("abc")>>))
    /\ target = PointTupleStruct
    /\ Finished
    /\ result.st = "err"
    /\ \E i \in Calls({"end_sequence"}) : de.log[i].st = "err"


\* What one step appended to the output, and the start of a line at indent
\* `ind` as the line rule has it: nothing on the first line of the output,
\* else one newline and 2 * ind spaces.
Written == SubSeq(output', Len(output) + 1, Len(output'))
LineStart(out, ind) ==
    IF out = <<>> THEN <<>>
    ELSE <<"\n">> \o (IF ind = 0 THEN <<>> ELSE <<Spaces(2 * ind)>>)
StartsLine ==
    /\ pc = "serialize" /\ pc' = "serialize" /\ work # <<>>
    /\ Head(work).op \in {"serialize_element", "serialize_field"}

\* C35: encoder line rule.  The output only grows.  A step that starts a
\* sequence element, a struct field or a variant payload item writes the
\* line start for the indent counter it finds (no newline and no spaces on
\* the first line of the output) and then the dash or the key; end_file
\* writes the one final newline; no other step writes a newline.
C35_LineRule ==
    [][/\ Len(output') >= Len(output)
       /\ SubSeq(output', 1, Len(output)) = output
       /\ StartsLine =>
            Written = LineStart(output, indent)
                        \o (IF Head(work).op = "serialize_element" THEN <<"- ">>
                            ELSE Push(<<>>, Head(work).key) \o <<":">>)
       /\ (pc = "serialize" /\ work = <<>>) => Written = <<"\n">>
       /\ (~StartsLine /\ ~(pc = "serialize" /\ work = <<>>)) =>
            \A i \in DOMAIN Written : Written[i] # "\n"]_vars

\* C35's case: the finished text has a first line that starts with the
\* dash of an element, without a newline, and a later line started at
\* indent 2.
C35_Witness_IndentedLines ==
    /\ pc = "to_string_returned"
    /\ output[1] = "- "
    /\ \E i \in DOMAIN output : i < Len(output) /\ output[i] = "\n" /\ output[i + 1] = "    "
    /\ output[Len(output)] = "\n"

====
